---- MODULE Spec2Model ----
(***************************************************************************)
(* A model of roar (argo-renderer): the descriptor resolver                *)
(* (internal/pkg/argo/parser.go) and the concurrent render orchestrator    *)
(* (internal/app: Run, processApplication, convertHTTPtoSSH).              *)
(*                                                                         *)
(* Go strings are sequences of one-character strings, so that prefixes,    *)
(* splitting and concatenation are computed as the code computes them.     *)
(* The empty Go string is << >>.                                           *)
(***************************************************************************)
EXTENDS Integers, Sequences, FiniteSets, TLC

VARIABLES
    runPc,        \* position of the goroutine running Run
    tempDir,      \* "none" | "exists" | "removed": the temporary clone workspace
    outDirMade,   \* os.MkdirAll(cfg.OutputDir) succeeded
    manifests,    \* appOfAppsManifests: the decoded document stream of the root render
    applications, \* []argo.Application returned by renderAndParseAppOfApps
    nextApp,      \* index of the next descriptor of the for loop of Run
    semaphore,    \* number of tokens held in the semaphore channel
    wg,           \* sync.WaitGroup counter
    errChan,      \* buffered channel of worker errors
    mu,           \* state.mu: 0 when free, else the worker holding it
    clonedRepos,  \* state.clonedRepos: cache key -> repo path
    cloneCounter, \* state.cloneCounter
    pc,           \* position of each worker goroutine
    wKey,         \* worker-local cacheKey
    wPath,        \* worker-local repoPath
    wCached,      \* worker-local isCached
    wErr,         \* worker-local error returned by processApplication ("" when nil)
    cloneLog,     \* history: every git.Clone invocation [w, key, path, ok]
    files,        \* the output tree: path -> the writes made to the file since its last truncation
    runResult,    \* what Run returned: "running" or a result record
    inStage,      \* gate specification: number of workers at each position
    pIn,          \* parser specification: the document stream given to ParseApplications
    pOut          \* parser specification: what ParseApplications returned

vars == << runPc, tempDir, outDirMade, manifests, applications, nextApp, semaphore,
           wg, errChan, mu, clonedRepos, cloneCounter, pc, wKey, wPath, wCached,
           wErr, cloneLog, files, runResult, inStage, pIn, pOut >>

(***************************************************************************)
(* Bounds of the model.                                                    *)
(***************************************************************************)
\* longest document stream of the root render in the orchestrator specification
MaxApps == 2
\* number of descriptors of the admission-gate specification
GateApps == 11
\* longest document stream given to ParseApplications in the parser specification
MaxDocs == 3

(***************************************************************************)
(* Strings.                                                                *)
(***************************************************************************)
Empty == << >>

HasPrefix(s, p) == Len(s) >= Len(p) /\ SubSeq(s, 1, Len(p)) = p

TrimPrefix(s, p) == IF HasPrefix(s, p) THEN SubSeq(s, Len(p) + 1, Len(s)) ELSE s

\* strings.Index for a one-character separator, 1-based; 0 when absent
IndexOf(s, c) ==
    IF \E i \in 1..Len(s) : s[i] = c
    THEN CHOOSE i \in 1..Len(s) : s[i] = c /\ \A j \in 1..(i - 1) : s[j] # c
    ELSE 0

Contains(s, c) == IndexOf(s, c) # 0

Digits == {"0", "1", "2", "3", "4", "5", "6", "7", "8", "9"}

DigitVal(c) ==
    CASE c = "0" -> 0 [] c = "1" -> 1 [] c = "2" -> 2 [] c = "3" -> 3 [] c = "4" -> 4
      [] c = "5" -> 5 [] c = "6" -> 6 [] c = "7" -> 7 [] c = "8" -> 8 [] c = "9" -> 9

RECURSIVE DecimalVal(_)
DecimalVal(s) ==
    IF s = Empty THEN 0
    ELSE 10 * DecimalVal(SubSeq(s, 1, Len(s) - 1)) + DigitVal(s[Len(s)])

\* the digits of a decimal text after its leading zeros; "0" for zero
RECURSIVE StripZeros(_)
StripZeros(s) ==
    IF Len(s) > 1 /\ s[1] = "0" THEN StripZeros(Tail(s)) ELSE s

\* An int of 64 bits is kept in three parts of its decimal writing, the value
\* being hi * 10^14 + mid * 10^7 + lo; the parts of a negative value are
\* negative.  sign is 1 or -1.
IntOf(mag, sign) ==
    LET n == Len(mag)
        from(k) == IF k < 1 THEN 1 ELSE k
    IN  [hi |-> sign * DecimalVal(SubSeq(mag, 1, n - 14)),
         mid |-> sign * DecimalVal(SubSeq(mag, from(n - 13), n - 7)),
         lo |-> sign * DecimalVal(SubSeq(mag, from(n - 6), n))]

\* `<` on int values
IntLess(a, b) ==
    \/ a.hi < b.hi
    \/ a.hi = b.hi /\ (a.mid < b.mid \/ (a.mid = b.mid /\ a.lo < b.lo))

\* strconv.Atoi for the 64-bit int: an optional sign and at least one decimal
\* digit, and a range error beyond -9223372036854775808..9223372036854775807
Atoi(s) ==
    LET signed == s # Empty /\ s[1] \in {"+", "-"}
        body == IF signed THEN Tail(s) ELSE s
        mag == StripZeros(body)
        val == IntOf(mag, IF signed /\ s[1] = "-" THEN 0 - 1 ELSE 1)
        maxInt == [hi |-> 92233, mid |-> 7203685, lo |-> 4775807]
        minInt == [hi |-> 0 - 92233, mid |-> 0 - 7203685, lo |-> 0 - 4775808]
        zero == [hi |-> 0, mid |-> 0, lo |-> 0]
    IN  IF body = Empty \/ \E i \in 1..Len(body) : body[i] \notin Digits
        THEN [ok |-> FALSE, val |-> zero]
        ELSE IF Len(mag) > 19 \/ IntLess(maxInt, val) \/ IntLess(val, minInt)
        THEN [ok |-> FALSE, val |-> zero]
        ELSE [ok |-> TRUE, val |-> val]

WERF_SET_INSTANCE ==
    << "W", "E", "R", "F", "_", "S", "E", "T", "_", "I", "N", "S", "T", "A", "N", "C", "E" >>
WERF_SET_ENV == << "W", "E", "R", "F", "_", "S", "E", "T", "_", "E", "N", "V" >>
WERF_VALUES_ == << "W", "E", "R", "F", "_", "V", "A", "L", "U", "E", "S", "_" >>

(***************************************************************************)
(* The descriptor resolver: internal/pkg/argo/parser.go                    *)
(***************************************************************************)
\* strings.SplitN(s, "=", 2): the text after the first "=", or "" without one
extractValueFromWerfSet(s) ==
    LET i == IndexOf(s, "=")
    IN  IF i # 0 THEN SubSeq(s, i + 1, Len(s)) ELSE Empty

\* HasKey as it would be if an empty value counted as a missing key
HasKeyNonEmpty(m, k) == k \in DOMAIN m /\ m[k] # << >>

\* map lookup `val, ok := m[key]`: maps are functions on the keys they hold
HasKey(m, k) == k \in DOMAIN m
Lookup(m, k) == IF k \in DOMAIN m THEN m[k] ELSE Empty
NoMap == [k \in {} |-> Empty]

\* a value of type map[string]string: the nil map, or a map made by make or by
\* a literal, with its entries; the two are told apart by `== nil` only
NilMap == [nil |-> TRUE, kv |-> NoMap]
MakeMap(kv) == [nil |-> FALSE, kv |-> kv]

\* the zero value Application{}
ZeroApplication ==
    [Name |-> Empty, Instance |-> Empty, Env |-> Empty, RepoURL |-> Empty,
     Path |-> Empty, TargetRevision |-> Empty, PluginEnv |-> << >>,
     ValuesFiles |-> << >>, Setters |-> NilMap]

\* the for loop over raw.Spec.Source.Plugin.Env: variables kept in pluginEnv
RECURSIVE RemainingPluginEnv(_)
RemainingPluginEnv(env) ==
    IF env = << >> THEN << >>
    ELSE LET e == Head(env)
             rest == RemainingPluginEnv(Tail(env))
         IN  IF e.Name = WERF_SET_INSTANCE \/ e.Name = WERF_SET_ENV THEN << e >> \o rest
             ELSE IF HasPrefix(e.Name, WERF_VALUES_) THEN rest
             ELSE << e >> \o rest

\* the for loop: the value of the last variable named `name`, extracted
RECURSIVE FromPlugin(_, _)
FromPlugin(env, name) ==
    IF env = << >> THEN Empty
    ELSE LET e == env[Len(env)]
         IN  IF e.Name = name THEN extractValueFromWerfSet(e.Value)
             ELSE FromPlugin(SubSeq(env, 1, Len(env) - 1), name)

\* the for loop: indexedValues, in input order
RECURSIVE IndexedValues(_)
IndexedValues(env) ==
    IF env = << >> THEN << >>
    ELSE LET e == Head(env)
             rest == IndexedValues(Tail(env))
             idx == Atoi(TrimPrefix(e.Name, WERF_VALUES_))
         IN  IF e.Name = WERF_SET_INSTANCE \/ e.Name = WERF_SET_ENV THEN rest
             ELSE IF HasPrefix(e.Name, WERF_VALUES_) /\ idx.ok
                  THEN << [index |-> idx.val, path |-> e.Value] >> \o rest
             ELSE rest

\* InsertSorted as it would be if the values files were kept in input order
InsertSortedInputOrder(s, x) == s \o << x >>

\* insert x into the sorted sequence s, after every element that is not greater
RECURSIVE InsertSorted(_, _)
InsertSorted(s, x) ==
    IF s = << >> THEN << x >>
    ELSE IF IntLess(x.index, s[Len(s)].index)
         THEN InsertSorted(SubSeq(s, 1, Len(s) - 1), x) \o << s[Len(s)] >>
         ELSE s \o << x >>

\* sort.insertionSort by index
RECURSIVE SortByIndex(_)
SortByIndex(s) ==
    IF s = << >> THEN << >>
    ELSE InsertSorted(SortByIndex(SubSeq(s, 1, Len(s) - 1)), s[Len(s)])

\* the less function given to sort.Slice
Less(x, y) == IntLess(x.index, y.index)

Swap(s, i, j) == [s EXCEPT ![i] = s[j], ![j] = s[i]]

\* sort.order2: positions a, b ordered by their elements, and the swap counted
order2(s, a, b) ==
    IF Less(s[b], s[a]) THEN [x |-> b, y |-> a, swaps |-> 1]
    ELSE [x |-> a, y |-> b, swaps |-> 0]

\* sort.median: the position of the median of s[a], s[b], s[c]
median(s, a, b, c) ==
    LET o1 == order2(s, a, b)
        o2 == order2(s, o1.y, c)
        o3 == order2(s, o1.x, o2.x)
    IN  [pivot |-> o3.y, swaps |-> o1.swaps + o2.swaps + o3.swaps]

\* sort.choosePivot on the whole slice, for 8 <= Len(s) < 50; positions are
\* 1-based
choosePivot(s) ==
    LET l == Len(s)
    IN  median(s, (l \div 4) * 1 + 1, (l \div 4) * 2 + 1, (l \div 4) * 3 + 1)

\* sort.partialInsertionSort for Len(s) < 50: it reports a sorted slice and
\* leaves an unsorted one as it is
partialInsertionSort(s) == \A i \in 2..Len(s) : ~Less(s[i], s[i - 1])

\* the scans of sort.partition, the pivot being s[1]
RECURSIVE ScanUp(_, _, _)
ScanUp(s, i, j) == IF i <= j /\ Less(s[i], s[1]) THEN ScanUp(s, i + 1, j) ELSE i

RECURSIVE ScanDown(_, _, _)
ScanDown(s, i, j) == IF i <= j /\ ~Less(s[j], s[1]) THEN ScanDown(s, i, j - 1) ELSE j

RECURSIVE PartitionLoop(_, _, _)
PartitionLoop(s, i, j) ==
    LET i2 == ScanUp(s, i, j)
        j2 == ScanDown(s, i2, j)
    IN  IF i2 > j2 THEN [s |-> s, j |-> j2]
        ELSE PartitionLoop(Swap(s, i2, j2), i2 + 1, j2 - 1)

\* sort.partition: [s, mid], the elements before mid less than s[mid] and
\* those after it not less
partition(s, pivot) ==
    LET r == PartitionLoop(Swap(s, 1, pivot), 2, Len(s))
    IN  [s |-> Swap(r.s, r.j, 1), mid |-> r.j]

\* the slice length up to which sort.pdqsort sorts by insertion
maxInsertion == 12

\* sort.pdqsort, the first turn of its loop: on a slice of maxInsertion + 1
\* elements both sides of the partition are sorted by insertion
pdqsort(s) ==
    LET c == choosePivot(s)
    IN  IF c.swaps = 0 /\ partialInsertionSort(s) THEN s
        ELSE LET q == partition(s, c.pivot)
             IN  SortByIndex(SubSeq(q.s, 1, q.mid - 1)) \o << q.s[q.mid] >>
                     \o SortByIndex(SubSeq(q.s, q.mid + 1, Len(s)))

\* sort.Slice(indexedValues, less), for slices of up to maxInsertion + 1
\* elements
sortSlice(s) == IF Len(s) <= maxInsertion THEN SortByIndex(s) ELSE pdqsort(s)

\* the label, else the plugin value
PreferLabel(fromLabel, fromPlugin) == IF fromLabel # Empty THEN fromLabel ELSE fromPlugin

\* Conflict as it would be if an absent source counted as a value
ConflictWithAbsent(fromLabel, fromPlugin) == fromLabel # fromPlugin

Conflict(fromLabel, fromPlugin) ==
    fromLabel # Empty /\ fromPlugin # Empty /\ fromLabel # fromPlugin

\* [err, app, values]: `values` are the two values a conflict error names,
\* label first
newApplicationFromRaw(raw) ==
    LET env == IF raw.HasPlugin THEN raw.PluginEnv ELSE << >>
        instanceFromLabel == Lookup(raw.Labels, "instance")
        envFromLabel == Lookup(raw.Labels, "env")
        instanceFromPlugin == FromPlugin(env, WERF_SET_INSTANCE)
        envFromPlugin == FromPlugin(env, WERF_SET_ENV)
        sorted == sortSlice(IndexedValues(env))
        annRepo == Lookup(raw.Annotations, "rawRepository")
        repoURL == IF annRepo = Empty THEN raw.RepoURL ELSE annRepo
        path == IF HasKey(raw.Annotations, "rawPath") THEN raw.Annotations["rawPath"]
                ELSE IF raw.Path = Empty THEN << "." >> ELSE raw.Path
    IN  IF Conflict(instanceFromLabel, instanceFromPlugin)
        THEN [err |-> "conflicting values for 'instance'", app |-> ZeroApplication,
              values |-> << instanceFromLabel, instanceFromPlugin >>]
        ELSE IF Conflict(envFromLabel, envFromPlugin)
        THEN [err |-> "conflicting values for 'env'", app |-> ZeroApplication,
              values |-> << envFromLabel, envFromPlugin >>]
        ELSE IF repoURL = Empty
        THEN [err |-> "both 'rawRepository' annotation and 'spec.source.repoURL' are empty",
              app |-> ZeroApplication, values |-> << >>]
        ELSE [err |-> "", values |-> << >>,
              app |-> [Name |-> raw.Name,
                       Instance |-> PreferLabel(instanceFromLabel, instanceFromPlugin),
                       Env |-> PreferLabel(envFromLabel, envFromPlugin),
                       RepoURL |-> repoURL,
                       Path |-> path,
                       TargetRevision |-> raw.TargetRevision,
                       PluginEnv |-> RemainingPluginEnv(env),
                       ValuesFiles |-> [i \in 1..Len(sorted) |-> sorted[i].path],
                       Setters |-> NilMap]]

\* IsApplication as it would be if either field were enough
IsApplicationEither(raw) ==
    raw.ApiVersion = "argoproj.io/v1alpha1" \/ raw.Kind = "Application"

IsApplication(raw) == raw.ApiVersion = "argoproj.io/v1alpha1" /\ raw.Kind = "Application"

\* ParseFrom as it would be if an error returned the descriptors found so far
RECURSIVE ParseFromPartial(_, _, _)
ParseFromPartial(docs, i, acc) ==
    IF i > Len(docs) THEN [apps |-> acc, err |-> ""]
    ELSE IF ~docs[i].decodes
    THEN [apps |-> acc, err |-> "failed to decode yaml document"]
    ELSE IF IsApplication(docs[i].raw)
    THEN LET r == newApplicationFromRaw(docs[i].raw)
         IN  IF r.err # ""
             THEN [apps |-> acc, err |-> "application is invalid"]
             ELSE ParseFromPartial(docs, i + 1, Append(acc, r.app))
    ELSE ParseFromPartial(docs, i + 1, acc)

\* One turn of the decode loop on document i with finalApps = acc.
\* A document is [decodes |-> BOOLEAN, raw |-> rawApplication]: decoder.Decode
\* returns an error on a document that does not decode.
RECURSIVE ParseFrom(_, _, _)
ParseFrom(docs, i, acc) ==
    IF i > Len(docs) THEN [apps |-> acc, err |-> ""]
    ELSE IF ~docs[i].decodes
    THEN [apps |-> << >>, err |-> "failed to decode yaml document"]
    ELSE IF IsApplication(docs[i].raw)
    THEN LET r == newApplicationFromRaw(docs[i].raw)
         IN  IF r.err # ""
             THEN [apps |-> << >>, err |-> "application is invalid"]
             ELSE ParseFrom(docs, i + 1, Append(acc, r.app))
    ELSE ParseFrom(docs, i + 1, acc)

ParseApplications(docs) == ParseFrom(docs, 1, << >>)

(***************************************************************************)
(* The identity normalizer: internal/app convertHTTPtoSSH.                 *)
(* net/url.Parse is modelled for strings over letters, digits and the      *)
(* characters . - : / @ (no query, fragment, escape, bracket or control    *)
(* character), which is what the repository URLs of the model are made of. *)
(***************************************************************************)
Letters == {"a", "b", "c", "d", "e", "f", "g", "h", "i", "j", "k", "l", "m",
            "n", "o", "p", "q", "r", "s", "t", "u", "v", "w", "x", "y", "z",
            "A", "B", "C", "D", "E", "F", "G", "H", "I", "J", "K", "L", "M",
            "N", "O", "P", "Q", "R", "S", "T", "U", "V", "W", "X", "Y", "Z"}

\* strings.ToLower on letters, digits and punctuation
ToLower(s) ==
    LET upper == << "A", "B", "C", "D", "E", "F", "G", "H", "I", "J", "K", "L", "M",
                    "N", "O", "P", "Q", "R", "S", "T", "U", "V", "W", "X", "Y", "Z" >>
        lower == << "a", "b", "c", "d", "e", "f", "g", "h", "i", "j", "k", "l", "m",
                    "n", "o", "p", "q", "r", "s", "t", "u", "v", "w", "x", "y", "z" >>
    IN  [i \in 1..Len(s) |->
            IF \E k \in 1..26 : upper[k] = s[i]
            THEN lower[CHOOSE k \in 1..26 : upper[k] = s[i]]
            ELSE s[i]]

LastIndexOf(s, c) ==
    IF \E i \in 1..Len(s) : s[i] = c
    THEN CHOOSE i \in 1..Len(s) : s[i] = c /\ \A j \in (i + 1)..Len(s) : s[j] # c
    ELSE 0

\* url.getScheme: [err, scheme, rest]
RECURSIVE getSchemeFrom(_, _)
getSchemeFrom(rawURL, i) ==
    IF i > Len(rawURL) THEN [err |-> FALSE, scheme |-> Empty, rest |-> rawURL]
    ELSE IF rawURL[i] \in Letters THEN getSchemeFrom(rawURL, i + 1)
    ELSE IF rawURL[i] \in Digits \cup {"+", "-", "."}
    THEN IF i = 1 THEN [err |-> FALSE, scheme |-> Empty, rest |-> rawURL]
         ELSE getSchemeFrom(rawURL, i + 1)
    ELSE IF rawURL[i] = ":"
    THEN IF i = 1 THEN [err |-> TRUE, scheme |-> Empty, rest |-> Empty]
         ELSE [err |-> FALSE, scheme |-> SubSeq(rawURL, 1, i - 1),
               rest |-> SubSeq(rawURL, i + 1, Len(rawURL))]
    ELSE [err |-> FALSE, scheme |-> Empty, rest |-> rawURL]

getScheme(rawURL) == getSchemeFrom(rawURL, 1)

\* url.validOptionalPort on the text from the last ":" of the host
validOptionalPort(port) ==
    port = Empty \/ (port[1] = ":" /\ \A i \in 2..Len(port) : port[i] \in Digits)

\* url.parseAuthority / url.parseHost: [err, host]
parseAuthority(authority) ==
    LET at == LastIndexOf(authority, "@")
        host == SubSeq(authority, at + 1, Len(authority))
        colon == LastIndexOf(host, ":")
    IN  IF colon # 0 /\ ~validOptionalPort(SubSeq(host, colon, Len(host)))
        THEN [err |-> TRUE, host |-> Empty]
        ELSE [err |-> FALSE, host |-> host]

\* url.Parse: [err, Scheme, Host, Path]; the scheme is put in lower case
urlParse(rawURL) ==
    LET gs == getScheme(rawURL)
        scheme == ToLower(gs.scheme)
        rest == gs.rest
        slash == IndexOf(rest, "/")
        segment == IF slash = 0 THEN rest ELSE SubSeq(rest, 1, slash - 1)
        failed == [err |-> TRUE, Scheme |-> Empty, Host |-> Empty, Path |-> Empty]
    IN  IF gs.err THEN failed
        ELSE IF ~HasPrefix(rest, << "/" >>) /\ gs.scheme # Empty
        THEN [err |-> FALSE, Scheme |-> scheme, Host |-> Empty, Path |-> Empty]
        ELSE IF ~HasPrefix(rest, << "/" >>) /\ Contains(segment, ":") THEN failed
        ELSE IF (gs.scheme # Empty \/ ~HasPrefix(rest, << "/", "/", "/" >>))
                /\ HasPrefix(rest, << "/", "/" >>)
        THEN LET after == SubSeq(rest, 3, Len(rest))
                 cut == IndexOf(after, "/")
                 authority == IF cut = 0 THEN after ELSE SubSeq(after, 1, cut - 1)
                 path == IF cut = 0 THEN Empty ELSE SubSeq(after, cut, Len(after))
                 pa == parseAuthority(authority)
             IN  IF pa.err THEN failed
                 ELSE [err |-> FALSE, Scheme |-> scheme, Host |-> pa.host, Path |-> path]
        ELSE [err |-> FALSE, Scheme |-> scheme, Host |-> Empty, Path |-> rest]

GitAt == << "g", "i", "t", "@" >>
Https == << "h", "t", "t", "p", "s" >>
Http == << "h", "t", "t", "p" >>

\* convertHTTPtoSSH as it would be if the leading "/" of the path were kept
convertHTTPtoSSHKeepSlash(httpURL) ==
    LET parsedURL == urlParse(httpURL)
    IN  IF HasPrefix(httpURL, GitAt) THEN [err |-> FALSE, url |-> httpURL]
        ELSE IF parsedURL.err THEN [err |-> TRUE, url |-> Empty]
        ELSE IF parsedURL.Scheme # Https /\ parsedURL.Scheme # Http
        THEN [err |-> FALSE, url |-> httpURL]
        ELSE [err |-> FALSE,
              url |-> GitAt \o parsedURL.Host \o << ":" >> \o parsedURL.Path]

\* [err, url]
convertHTTPtoSSH(httpURL) ==
    LET parsedURL == urlParse(httpURL)
    IN  IF HasPrefix(httpURL, GitAt) THEN [err |-> FALSE, url |-> httpURL]
        ELSE IF parsedURL.err THEN [err |-> TRUE, url |-> Empty]
        ELSE IF parsedURL.Scheme # Https /\ parsedURL.Scheme # Http
        THEN [err |-> FALSE, url |-> httpURL]
        ELSE [err |-> FALSE,
              url |-> GitAt \o parsedURL.Host \o << ":" >>
                      \o TrimPrefix(parsedURL.Path, << "/" >>)]

\* fmt.Sprintf("%s@%s", sshURL, app.TargetRevision)
CacheKey(sshURL, revision) == sshURL \o << "@" >> \o revision

(***************************************************************************)
(* Documents of the model.  A decoded document is a rawApplication.        *)
(***************************************************************************)
RawDoc(apiVersion, kind, name, labels, annotations, repoURL, revision, path, hasPlugin, env) ==
    [decodes |-> TRUE,
     raw |-> [ApiVersion |-> apiVersion, Kind |-> kind, Name |-> name, Labels |-> labels,
              Annotations |-> annotations, RepoURL |-> repoURL,
              TargetRevision |-> revision, Path |-> path,
              HasPlugin |-> hasPlugin, PluginEnv |-> env]]

AppDoc(name, labels, annotations, repoURL, revision, env) ==
    RawDoc("argoproj.io/v1alpha1", "Application", name, labels, annotations, repoURL,
           revision, Empty, env # << >>, env)

\* a document the YAML decoder rejects
Malformed == [decodes |-> FALSE, raw |-> AppDoc(Empty, NoMap, NoMap, Empty, Empty, << >>).raw]

Map1(k, v) == [x \in {k} |-> v]
Map2(k1, v1, k2, v2) == [x \in {k1, k2} |-> IF x = k1 THEN v1 ELSE v2]

UrlHttps == << "h", "t", "t", "p", "s", ":", "/", "/", "h", "/", "p" >>
UrlGit == << "g", "i", "t", "@", "h", ":", "p" >>
UrlUser == << "b", "@", "h", ":", "p" >>

\* https://h/p at revision m, written under <out>/d/i/a.yaml
DocA == AppDoc(<< "a" >>, Map2("env", << "d" >>, "instance", << "i" >>),
               Map1("rawRepository", UrlHttps), Empty, << "m" >>, << >>)
\* git@h:p at revision m: the repository of DocA under the other scheme
DocB == AppDoc(<< "b" >>, NoMap, NoMap, UrlGit, << "m" >>, << >>)
\* https://h/p at revision n
DocC == AppDoc(<< "c" >>, NoMap, Map1("rawRepository", UrlHttps), Empty, << "n" >>, << >>)
\* b@h:p at revision m
DocD == AppDoc(<< "d" >>, NoMap, NoMap, UrlUser, << "m" >>, << >>)
\* not an Application
DocConfigMap == RawDoc("v1", "ConfigMap", << "k" >>, NoMap, NoMap, Empty, Empty, Empty, FALSE, << >>)
\* label instance=i against WERF_SET_INSTANCE=global.instance=j
DocConflict ==
    AppDoc(<< "e" >>, Map1("instance", << "i" >>), Map1("rawRepository", UrlHttps), Empty,
           << "m" >>,
           << [Name |-> WERF_SET_INSTANCE, Value |-> << "g", "=", "j" >>] >>)

\* env d alone, written under <out>/d/f.yaml
DocEnvOnly == AppDoc(<< "f" >>, Map1("env", << "d" >>), NoMap, UrlGit, << "m" >>, << >>)
\* instance i alone, written under <out>/i/g.yaml
DocInstanceOnly ==
    AppDoc(<< "g" >>, Map1("instance", << "i" >>), NoMap, UrlGit, << "m" >>, << >>)

\* the last document is written under <out>/d/i/a.yaml as DocA is, from
\* revision n of git@h:p
RunDocs == {DocA, DocB, DocC, DocD, DocConfigMap, DocConflict, Malformed, DocEnvOnly,
            DocInstanceOnly,
            AppDoc(<< "a" >>, Map2("env", << "d" >>, "instance", << "i" >>), NoMap, UrlGit,
                   << "n" >>, << >>)}

RECURSIVE SeqsUpTo(_, _)
SeqsUpTo(S, n) ==
    IF n = 0 THEN {<< >>}
    ELSE LET shorter == SeqsUpTo(S, n - 1)
         IN  shorter \cup {Append(q, x) : q \in {r \in shorter : Len(r) = n - 1}, x \in S}

\* what helm.Template may return for the root chart
RootManifests == SeqsUpTo(RunDocs, MaxApps)

(***************************************************************************)
(* The render orchestrator: internal/app Run and processApplication.       *)
(***************************************************************************)
maxConcurrency == 10

Workers == 1..MaxApps

\* positions of a worker goroutine of Run when processApplication is taken as one call
GateStages == {"process", "send", "release", "wgDone", "exit"}

NoError == [w |-> 0, stage |-> ""]
Pending == [err |-> "pending", count |-> 0, first |-> NoError]
Returned(err, count, first) == [err |-> err, count |-> count, first |-> first]

MapPut(m, k, v) == [x \in DOMAIN m \cup {k} |-> IF x = k THEN v ELSE m[x]]

\* OverrideValues as it would be if an empty instance or env were written too
OverrideValuesAlways(app) ==
    MapPut(MapPut(app.Setters.kv, "global.instance", app.Instance), "global.env", app.Env)

\* werfSetValues of processApplication
OverrideValues(app) ==
    LET withInstance == IF app.Instance # Empty
                        THEN MapPut(app.Setters.kv, "global.instance", app.Instance)
                        ELSE app.Setters.kv
    IN  IF app.Env # Empty THEN MapPut(withInstance, "global.env", app.Env)
        ELSE withInstance

\* DescriptorAfter as it would be if the two writes went to the map of the
\* descriptor whatever it held
DescriptorAfterInPlace(app) == [app EXCEPT !.Setters = MakeMap(OverrideValues(app))]

\* The descriptor after lines 117-131.  `werfSetValues := app.Setters` copies
\* the map reference, so the two writes go to the map of the descriptor; only
\* for a nil map is a new map made, and the descriptor keeps nil.
DescriptorAfter(app) ==
    IF app.Setters.nil THEN app
    ELSE [app EXCEPT !.Setters = MakeMap(OverrideValues(app))]

\* cfg.OutputDir; a path is the sequence of its elements
OutputDir == << << "o", "u", "t" >> >>

FinalOutputDir(app) ==
    LET withEnv == IF app.Env # Empty THEN Append(OutputDir, app.Env) ELSE OutputDir
    IN  IF app.Instance # Empty THEN Append(withEnv, app.Instance) ELSE withEnv

OutputFile(app) == Append(FinalOutputDir(app), app.Name \o << ".", "y", "a", "m", "l" >>)

\* appOpts of the child render; repoPath n stands for <tempDir>/clone-<n>
AppOpts(app, repoPath) ==
    [ReleaseName |-> app.Name,
     ChartPath |-> << repoPath, app.Path, ".helm" >>,
     ValuesFiles |-> [i \in 1..Len(app.ValuesFiles) |-> << repoPath, app.Path, app.ValuesFiles[i] >>],
     SetValues |-> OverrideValues(app)]

Init ==
    /\ runPc = "mkdirTemp"
    /\ tempDir = "none"
    /\ outDirMade = FALSE
    /\ manifests = << >>
    /\ applications = << >>
    /\ nextApp = 1
    /\ semaphore = 0
    /\ wg = 0
    /\ errChan = << >>
    /\ mu = 0
    /\ clonedRepos = [k \in {} |-> 0]
    /\ cloneCounter = 0
    /\ pc = [w \in Workers |-> "queued"]
    /\ wKey = [w \in Workers |-> Empty]
    /\ wPath = [w \in Workers |-> 0]
    /\ wCached = [w \in Workers |-> FALSE]
    /\ wErr = [w \in Workers |-> ""]
    /\ cloneLog = {}
    /\ files = [f \in {} |-> 0]
    /\ runResult = Pending
    /\ inStage = [s \in GateStages |-> 0]
    /\ pIn = << >>
    /\ pOut = [apps |-> << >>, err |-> "pending"]

workerVars == << pc, wKey, wPath, wCached, wErr >>
cacheVars == << mu, clonedRepos, cloneCounter, cloneLog >>
otherSpecVars == << inStage, pIn, pOut >>

\* Run, lines 34-39: os.MkdirTemp
MkdirTemp ==
    /\ runPc = "mkdirTemp"
    /\ \/ /\ tempDir' = "exists"
          /\ runPc' = "mkdirOutput"
          /\ UNCHANGED runResult
       \/ /\ runResult' = Returned("failed to create temp directory", 0, NoError)
          /\ runPc' = "returned"
          /\ UNCHANGED tempDir
    /\ UNCHANGED << outDirMade, manifests, applications, nextApp, semaphore, wg, errChan,
                    files >>
    /\ UNCHANGED << workerVars, cacheVars, otherSpecVars >>

\* ReturnWith as it would be if the removal of the workspace were not deferred
ReturnWithoutCleanup(result) ==
    /\ runResult' = result
    /\ tempDir' = tempDir
    /\ runPc' = "returned"

\* a return of Run after `defer os.RemoveAll(tempDir)` was registered
ReturnWith(result) ==
    /\ runResult' = result
    /\ tempDir' = "removed"
    /\ runPc' = "returned"

\* Run, lines 41-43: os.MkdirAll(cfg.OutputDir)
MkdirOutput ==
    /\ runPc = "mkdirOutput"
    /\ \/ /\ outDirMade' = TRUE
          /\ runPc' = "renderRoot"
          /\ UNCHANGED << runResult, tempDir >>
       \/ /\ ReturnWith(Returned("failed to create output directory", 0, NoError))
          /\ UNCHANGED outDirMade
    /\ UNCHANGED << manifests, applications, nextApp, semaphore, wg, errChan, files >>
    /\ UNCHANGED << workerVars, cacheVars, otherSpecVars >>

\* RenderRoot as it would be if the first worker were started on the rendered
\* stream before the resolution step had run
RenderRootEager ==
    /\ runPc = "renderRoot"
    /\ \/ /\ \E m \in RootManifests :
                /\ manifests' = m
                /\ IF ParseApplications(m).err = "" /\ ParseApplications(m).apps # << >>
                   THEN /\ applications' = ParseApplications(m).apps
                        /\ pc' = [pc EXCEPT ![1] = "start"]
                        /\ wg' = wg + 1
                        /\ semaphore' = semaphore + 1
                        /\ nextApp' = 2
                   ELSE UNCHANGED << applications, pc, wg, semaphore, nextApp >>
          /\ runPc' = "parse"
          /\ UNCHANGED << runResult, tempDir >>
       \/ /\ runResult' = [err |-> "initialization failed", count |-> 0,
                           first |-> [w |-> 0, stage |-> ""]]
          /\ tempDir' = "removed"
          /\ runPc' = "returned"
          /\ UNCHANGED << manifests, applications, pc, wg, semaphore, nextApp >>
    /\ UNCHANGED << outDirMade, errChan, files >>
    /\ UNCHANGED << wKey, wPath, wCached, wErr, mu, clonedRepos, cloneCounter,
                    cloneLog, inStage, pIn, pOut >>

\* renderAndParseAppOfApps, lines 96-101: helm.Template of the root chart
RenderRoot ==
    /\ runPc = "renderRoot"
    /\ \/ /\ \E m \in RootManifests : manifests' = m
          /\ runPc' = "parse"
          /\ UNCHANGED << runResult, tempDir >>
       \/ /\ ReturnWith(Returned("initialization failed", 0, NoError))
          /\ UNCHANGED manifests
    /\ UNCHANGED << outDirMade, applications, nextApp, semaphore, wg, errChan, files >>
    /\ UNCHANGED << workerVars, cacheVars, otherSpecVars >>

\* the documents that decode and, when Applications, resolve
RECURSIVE ValidDocs(_)
ValidDocs(docs) ==
    IF docs = << >> THEN << >>
    ELSE LET d == Head(docs)
             keep == d.decodes /\ (IsApplication(d.raw) => newApplicationFromRaw(d.raw).err = "")
         IN  (IF keep THEN << d >> ELSE << >>) \o ValidDocs(Tail(docs))

\* ParseRoot as it would be if an invalid document were skipped instead of
\* failing the run
ParseRootLenient ==
    /\ runPc = "parse"
    /\ applications' = ParseApplications(ValidDocs(manifests)).apps
    /\ runPc' = "loop"
    /\ UNCHANGED << runResult, tempDir >>
    /\ UNCHANGED << outDirMade, manifests, nextApp, semaphore, wg, errChan, files >>
    /\ UNCHANGED << pc, wKey, wPath, wCached, wErr, mu, clonedRepos, cloneCounter,
                    cloneLog, inStage, pIn, pOut >>

\* renderAndParseAppOfApps, lines 103-110, and Run, lines 45-60
ParseRoot ==
    /\ runPc = "parse"
    /\ LET r == ParseApplications(manifests)
       IN  IF r.err # ""
           THEN /\ ReturnWith(Returned("initialization failed", 0, NoError))
                /\ UNCHANGED applications
           ELSE /\ applications' = r.apps
                /\ runPc' = "loop"
                /\ UNCHANGED << runResult, tempDir >>
    /\ UNCHANGED << outDirMade, manifests, nextApp, semaphore, wg, errChan, files >>
    /\ UNCHANGED << workerVars, cacheVars, otherSpecVars >>

\* LoopNext as it would be if a reported error stopped the loop
LoopNextCancelOnError ==
    /\ runPc = "loop"
    /\ IF nextApp <= Len(applications) /\ errChan = << >>
       THEN wg' = wg + 1 /\ runPc' = "admit"
       ELSE runPc' = "wait" /\ UNCHANGED wg
    /\ UNCHANGED << tempDir, outDirMade, manifests, applications, nextApp, semaphore,
                    errChan, files, runResult >>
    /\ UNCHANGED << pc, wKey, wPath, wCached, wErr, mu, clonedRepos, cloneCounter,
                    cloneLog, inStage, pIn, pOut >>

\* Run, lines 62-63: the for loop and wg.Add(1)
LoopNext ==
    /\ runPc = "loop"
    /\ IF nextApp <= Len(applications)
       THEN wg' = wg + 1 /\ runPc' = "admit"
       ELSE runPc' = "wait" /\ UNCHANGED wg
    /\ UNCHANGED << tempDir, outDirMade, manifests, applications, nextApp, semaphore,
                    errChan, files, runResult >>
    /\ UNCHANGED << workerVars, cacheVars, otherSpecVars >>

\* Run, lines 65-75: the send on the semaphore, then the go statement
Admit ==
    /\ runPc = "admit"
    /\ semaphore < maxConcurrency
    /\ semaphore' = semaphore + 1
    /\ pc' = [pc EXCEPT ![nextApp] = "start"]
    /\ nextApp' = nextApp + 1
    /\ runPc' = "loop"
    /\ UNCHANGED << tempDir, outDirMade, manifests, applications, wg, errChan, files,
                    runResult, wKey, wPath, wCached, wErr >>
    /\ UNCHANGED << cacheVars, otherSpecVars >>

\* Run, line 78: wg.Wait()
Wait ==
    /\ runPc = "wait"
    /\ wg = 0
    /\ runPc' = "drain"
    /\ UNCHANGED << tempDir, outDirMade, manifests, applications, nextApp, semaphore, wg,
                    errChan, files, runResult >>
    /\ UNCHANGED << workerVars, cacheVars, otherSpecVars >>

\* Aggregate as it would be if it reported the first error alone
AggregateFirstOnly(allErrors) ==
    IF Len(allErrors) > 0
    THEN [err |-> "failed to process application(s)", count |-> 1, first |-> allErrors[1]]
    ELSE [err |-> "", count |-> 0, first |-> [w |-> 0, stage |-> ""]]

\* the value Run returns for the drained errors
Aggregate(allErrors) ==
    IF Len(allErrors) > 0
    THEN Returned("failed to process application(s)", Len(allErrors), allErrors[1])
    ELSE Returned("", 0, NoError)

\* Run, lines 79-92: close(errChan), the range over it and the return
Drain ==
    /\ runPc = "drain"
    /\ ReturnWith(Aggregate(errChan))
    /\ errChan' = << >>
    /\ UNCHANGED << outDirMade, manifests, applications, nextApp, semaphore, wg, files >>
    /\ UNCHANGED << workerVars, cacheVars, otherSpecVars >>

mainVars == << runPc, tempDir, outDirMade, manifests, applications, nextApp, runResult >>

\* processApplication returned err at `stage`: the goroutine goes on to `errChan <- err`
Fail(w, stage) ==
    /\ wErr' = [wErr EXCEPT ![w] = stage]
    /\ pc' = [pc EXCEPT ![w] = "send"]

\* convertHTTPtoSSH of every repository address a descriptor of the run
\* documents can have, computed once
sshURL ==
    [u \in {newApplicationFromRaw(d.raw).app.RepoURL :
                d \in {x \in RunDocs : x.decodes /\ IsApplication(x.raw)}} |->
        convertHTTPtoSSH(u)]

\* processApplication, lines 114-138: the override map, which leaves the
\* descriptor as DescriptorAfter gives it, convertHTTPtoSSH, cacheKey
Start(w) ==
    /\ pc[w] = "start"
    /\ LET app == applications[w]
           ssh == sshURL[app.RepoURL]
       IN  IF ssh.err
           THEN Fail(w, "normalize") /\ UNCHANGED wKey
           ELSE /\ wKey' = [wKey EXCEPT ![w] = CacheKey(ssh.url, app.TargetRevision)]
                /\ pc' = [pc EXCEPT ![w] = "lockLookup"]
                /\ UNCHANGED wErr
    /\ applications' = [applications EXCEPT ![w] = DescriptorAfter(@)]
    /\ UNCHANGED << wPath, wCached, semaphore, wg, errChan, files >>
    /\ UNCHANGED << runPc, tempDir, outDirMade, manifests, nextApp, runResult >>
    /\ UNCHANGED << cacheVars, otherSpecVars >>

\* Lock as it would be if it did not wait for the holder to unlock
LockNoWait(w, at, then) ==
    /\ pc[w] = at
    /\ mu' = w
    /\ pc' = [pc EXCEPT ![w] = then]
    /\ UNCHANGED << wKey, wPath, wCached, wErr, clonedRepos, cloneCounter, cloneLog,
                    semaphore, wg, errChan, files >>
    /\ UNCHANGED << runPc, tempDir, outDirMade, manifests, applications, nextApp,
                    runResult, inStage, pIn, pOut >>

\* state.mu.Lock() of lines 141, 148 and 161
Lock(w, at, then) ==
    /\ pc[w] = at
    /\ mu = 0
    /\ mu' = w
    /\ pc' = [pc EXCEPT ![w] = then]
    /\ UNCHANGED << wKey, wPath, wCached, wErr, clonedRepos, cloneCounter, cloneLog,
                    semaphore, wg, errChan, files >>
    /\ UNCHANGED << mainVars, otherSpecVars >>

LockLookup(w) == Lock(w, "lockLookup", "lookup")

\* the position after the lookup: `if !isCached`
AfterLookup(isCached) == IF isCached THEN "render" ELSE "lockCount"

\* processApplication, lines 142-146: the lookup and Unlock
LookupCache(w) ==
    /\ pc[w] = "lookup"
    /\ mu = w
    /\ LET isCached == wKey[w] \in DOMAIN clonedRepos
       IN  /\ wCached' = [wCached EXCEPT ![w] = isCached]
           /\ wPath' = [wPath EXCEPT ![w] = IF isCached THEN clonedRepos[wKey[w]] ELSE 0]
           /\ pc' = [pc EXCEPT ![w] = AfterLookup(isCached)]
    /\ mu' = 0
    /\ UNCHANGED << wKey, wErr, clonedRepos, cloneCounter, cloneLog, semaphore, wg,
                    errChan, files >>
    /\ UNCHANGED << mainVars, otherSpecVars >>

LockCount(w) == Lock(w, "lockCount", "count")

\* processApplication, lines 149-151: cloneCounter++, repoPath and Unlock
CountClone(w) ==
    /\ pc[w] = "count"
    /\ mu = w
    /\ cloneCounter' = cloneCounter + 1
    /\ wPath' = [wPath EXCEPT ![w] = cloneCounter + 1]
    /\ mu' = 0
    /\ pc' = [pc EXCEPT ![w] = "clone"]
    /\ UNCHANGED << wKey, wCached, wErr, clonedRepos, cloneLog, semaphore, wg, errChan,
                    files >>
    /\ UNCHANGED << mainVars, otherSpecVars >>

\* git.Clone whose failure is not returned: the worker goes on to the insertion
CloneCachesFailure(w) ==
    /\ pc[w] = "clone"
    /\ \E ok \in BOOLEAN :
          /\ cloneLog' = cloneLog \cup {[w |-> w, key |-> wKey[w], path |-> wPath[w], ok |-> ok]}
          /\ pc' = [pc EXCEPT ![w] = "lockInsert"]
          /\ UNCHANGED wErr
    /\ UNCHANGED << wKey, wPath, wCached, mu, clonedRepos, cloneCounter, semaphore, wg,
                    errChan, files >>
    /\ UNCHANGED << mainVars, otherSpecVars >>

\* processApplication, lines 154-158: git.Clone, which succeeds or fails
Clone(w) ==
    /\ pc[w] = "clone"
    /\ \E ok \in BOOLEAN :
          /\ cloneLog' = cloneLog \cup {[w |-> w, key |-> wKey[w], path |-> wPath[w], ok |-> ok]}
          /\ IF ok
             THEN pc' = [pc EXCEPT ![w] = "lockInsert"] /\ UNCHANGED wErr
             ELSE Fail(w, "clone")
    /\ UNCHANGED << wKey, wPath, wCached, mu, clonedRepos, cloneCounter, semaphore, wg,
                    errChan, files >>
    /\ UNCHANGED << mainVars, otherSpecVars >>

LockInsert(w) == Lock(w, "lockInsert", "insert")

\* state.clonedRepos[cacheKey] = repoPath
CachePut(cache, key, path) ==
    [k \in DOMAIN cache \cup {key} |-> IF k = key THEN path ELSE cache[k]]

\* processApplication, lines 162-163: the insertion and Unlock
InsertCache(w) ==
    /\ pc[w] = "insert"
    /\ mu = w
    /\ clonedRepos' = CachePut(clonedRepos, wKey[w], wPath[w])
    /\ mu' = 0
    /\ pc' = [pc EXCEPT ![w] = "render"]
    /\ UNCHANGED << wKey, wPath, wCached, wErr, cloneCounter, cloneLog, semaphore, wg,
                    errChan, files >>
    /\ UNCHANGED << mainVars, otherSpecVars >>

\* processApplication, lines 169-180: helm.Template of the child chart
Render(w) ==
    /\ pc[w] = "render"
    /\ \/ pc' = [pc EXCEPT ![w] = "mkdir"] /\ UNCHANGED wErr
       \/ Fail(w, "render")
    /\ UNCHANGED << wKey, wPath, wCached, semaphore, wg, errChan, files >>
    /\ UNCHANGED << mainVars, cacheVars, otherSpecVars >>

\* processApplication, lines 182-194: os.MkdirAll(finalOutputDir)
MkdirFinal(w) ==
    /\ pc[w] = "mkdir"
    /\ \/ pc' = [pc EXCEPT ![w] = "write"] /\ UNCHANGED wErr
       \/ Fail(w, "mkdir")
    /\ UNCHANGED << wKey, wPath, wCached, semaphore, wg, errChan, files >>
    /\ UNCHANGED << mainVars, cacheVars, otherSpecVars >>

\* renderedApp, lines 169-180: the bytes helm.Template returns for appOpts,
\* the render of the chart in the worker's own clone directory.  Two workers
\* that render from one directory (a cache hit) have the same bytes; the
\* renders of two clones of one key are two renders, whose bytes need not be
\* equal.
RenderedApp(w) == AppOpts(applications[w], wPath[w])

\* A file is held as the writes made to it since it was last truncated, each
\* with the render whose bytes it wrote and whether it broke off part-way: the
\* one whole write of a render is a file holding that render's bytes unchanged.
\* os.WriteFile, f.Write: bytes of render r, all or a part of them, go to
\* offset 0 of a file that holds `old`.  Over bytes of the same render the
\* longer write stays; bytes of another render are covered, or their end is
\* left behind the new bytes.
Written(old, r, part) ==
    LET l == [bytes |-> r, part |-> part]
    IN  IF \A k \in 1..Len(old) : old[k].bytes = r
        THEN IF part /\ (\E k \in 1..Len(old) : ~old[k].part) THEN {old} ELSE {<< l >>}
        ELSE {<< l >>, Append(old, l)}

\* processApplication, lines 196-197: os.WriteFile opens the file with
\* O_WRONLY|O_CREATE|O_TRUNC, under no lock: it is created, or emptied
OpenFile(w) ==
    /\ pc[w] = "write"
    /\ \/ /\ files' = MapPut(files, OutputFile(applications[w]), << >>)
          /\ pc' = [pc EXCEPT ![w] = "writeBytes"]
          /\ UNCHANGED wErr
       \/ Fail(w, "write") /\ UNCHANGED files
    /\ UNCHANGED << wKey, wPath, wCached, semaphore, wg, errChan >>
    /\ UNCHANGED << mainVars, cacheVars, otherSpecVars >>

\* processApplication, lines 197-202: os.WriteFile writes renderedApp and
\* closes the file.  On an error the file is left as it was, with a part of
\* the bytes, or with all of them when it is the close that fails.
Write(w) ==
    /\ pc[w] = "writeBytes"
    /\ LET path == OutputFile(applications[w])
           r == RenderedApp(w)
       IN  \/ /\ \E c \in Written(files[path], r, FALSE) : files' = MapPut(files, path, c)
              /\ pc' = [pc EXCEPT ![w] = "release"]
              /\ UNCHANGED wErr
           \/ /\ \E c \in {files[path]} \cup Written(files[path], r, TRUE)
                             \cup Written(files[path], r, FALSE) :
                     files' = MapPut(files, path, c)
              /\ Fail(w, "write")
    /\ UNCHANGED << wKey, wPath, wCached, semaphore, wg, errChan >>
    /\ UNCHANGED << mainVars, cacheVars, otherSpecVars >>

\* Run, lines 72-74: errChan <- err, on a channel of capacity len(applications)
Send(w) ==
    /\ pc[w] = "send"
    /\ Len(errChan) < Len(applications)
    /\ errChan' = Append(errChan, [w |-> w, stage |-> wErr[w]])
    /\ pc' = [pc EXCEPT ![w] = "release"]
    /\ UNCHANGED << wKey, wPath, wCached, wErr, semaphore, wg, files >>
    /\ UNCHANGED << mainVars, cacheVars, otherSpecVars >>

\* Run, line 70: the deferred <-semaphore
Release(w) ==
    /\ pc[w] = "release"
    /\ semaphore > 0
    /\ semaphore' = semaphore - 1
    /\ pc' = [pc EXCEPT ![w] = "wgDone"]
    /\ UNCHANGED << wKey, wPath, wCached, wErr, wg, errChan, files >>
    /\ UNCHANGED << mainVars, cacheVars, otherSpecVars >>

\* Run, line 68: the deferred wg.Done()
WgDone(w) ==
    /\ pc[w] = "wgDone"
    /\ wg' = wg - 1
    /\ pc' = [pc EXCEPT ![w] = "exit"]
    /\ UNCHANGED << wKey, wPath, wCached, wErr, semaphore, errChan, files >>
    /\ UNCHANGED << mainVars, cacheVars, otherSpecVars >>

Worker(w) ==
    \/ Start(w)
    \/ LockLookup(w)
    \/ LookupCache(w)
    \/ LockCount(w)
    \/ CountClone(w)
    \/ Clone(w)
    \/ LockInsert(w)
    \/ InsertCache(w)
    \/ Render(w)
    \/ MkdirFinal(w)
    \/ OpenFile(w)
    \/ Write(w)
    \/ Send(w)
    \/ Release(w)
    \/ WgDone(w)

Next ==
    \/ MkdirTemp
    \/ MkdirOutput
    \/ RenderRoot
    \/ ParseRoot
    \/ LoopNext
    \/ Admit
    \/ Wait
    \/ Drain
    \/ \E w \in Workers : Worker(w)

Spec == Init /\ [][Next]_vars

(***************************************************************************)
(* The admission gate of Run, lines 56-92, for more descriptors than       *)
(* slots.  The descriptors are those of DocD, whose repository URL         *)
(* url.Parse rejects: processApplication returns the error of line 135     *)
(* before it reads or writes anything shared, so it is one step.  The      *)
(* workers, which run the same code on equal descriptors, are counted by   *)
(* position: inStage[s] workers are at position s.                         *)
(***************************************************************************)
GateError == [w |-> 0, stage |-> "normalize"]

GateManifests(n) == [i \in 1..n |-> DocD]

\* Run at line 56, with n resolved descriptors
GateInit ==
    /\ runPc = "gateLoop"
    /\ tempDir = "exists"
    /\ outDirMade = TRUE
    /\ \E n \in 0..GateApps :
          /\ manifests = GateManifests(n)
          /\ applications = ParseApplications(GateManifests(n)).apps
    /\ nextApp = 1
    /\ semaphore = 0
    /\ wg = 0
    /\ errChan = << >>
    /\ mu = 0
    /\ clonedRepos = [k \in {} |-> 0]
    /\ cloneCounter = 0
    /\ pc = [w \in Workers |-> "queued"]
    /\ wKey = [w \in Workers |-> Empty]
    /\ wPath = [w \in Workers |-> 0]
    /\ wCached = [w \in Workers |-> FALSE]
    /\ wErr = [w \in Workers |-> ""]
    /\ cloneLog = {}
    /\ files = [f \in {} |-> 0]
    /\ runResult = Pending
    /\ inStage = [s \in GateStages |-> 0]
    /\ pIn = << >>
    /\ pOut = [apps |-> << >>, err |-> "pending"]

gateFrame == << tempDir, outDirMade, manifests, applications, files, workerVars,
                cacheVars, pIn, pOut >>

\* one worker moves from position `from` to position `to`
Move(from, to) ==
    [s \in GateStages |-> IF s = from THEN inStage[s] - 1
                          ELSE IF s = to THEN inStage[s] + 1
                          ELSE inStage[s]]

\* Run, lines 62-63: the for loop and wg.Add(1)
GateLoopNext ==
    /\ runPc = "gateLoop"
    /\ IF nextApp <= Len(applications)
       THEN wg' = wg + 1 /\ runPc' = "gateAdmit"
       ELSE runPc' = "gateWait" /\ UNCHANGED wg
    /\ UNCHANGED << nextApp, semaphore, errChan, runResult, inStage, gateFrame >>

\* GateAdmit as it would be if the go statement did not wait for a slot
GateAdmitNoWait ==
    /\ runPc = "gateAdmit"
    /\ semaphore' = semaphore + 1
    /\ inStage' = [inStage EXCEPT !["process"] = @ + 1]
    /\ nextApp' = nextApp + 1
    /\ runPc' = "gateLoop"
    /\ UNCHANGED << wg, errChan, runResult, gateFrame >>

\* Run, lines 65-75: the send on the semaphore, then the go statement
GateAdmit ==
    /\ runPc = "gateAdmit"
    /\ semaphore < maxConcurrency
    /\ semaphore' = semaphore + 1
    /\ inStage' = [inStage EXCEPT !["process"] = @ + 1]
    /\ nextApp' = nextApp + 1
    /\ runPc' = "gateLoop"
    /\ UNCHANGED << wg, errChan, runResult, gateFrame >>

\* Run, line 72: processApplication on a descriptor whose repository URL is
\* rejected, lines 114-136: the override map, convertHTTPtoSSH and the return
\* of its error
GateProcess ==
    /\ inStage["process"] > 0
    /\ sshURL[applications[1].RepoURL].err
    /\ inStage' = Move("process", "send")
    /\ UNCHANGED << runPc, nextApp, semaphore, wg, errChan, runResult, gateFrame >>

\* Run, line 73: errChan <- err
GateSend ==
    /\ inStage["send"] > 0
    /\ Len(errChan) < Len(applications)
    /\ errChan' = Append(errChan, GateError)
    /\ inStage' = Move("send", "release")
    /\ UNCHANGED << runPc, nextApp, semaphore, wg, runResult, gateFrame >>

\* GateRelease as it would be if the worker ended without receiving from the
\* semaphore
GateReleaseKeepsSlot ==
    /\ inStage["release"] > 0
    /\ inStage' = Move("release", "wgDone")
    /\ UNCHANGED << runPc, nextApp, semaphore, wg, errChan, runResult, gateFrame >>

\* Run, line 70: the deferred <-semaphore
GateRelease ==
    /\ inStage["release"] > 0
    /\ semaphore > 0
    /\ semaphore' = semaphore - 1
    /\ inStage' = Move("release", "wgDone")
    /\ UNCHANGED << runPc, nextApp, wg, errChan, runResult, gateFrame >>

\* Run, line 68: the deferred wg.Done()
GateWgDone ==
    /\ inStage["wgDone"] > 0
    /\ wg' = wg - 1
    /\ inStage' = Move("wgDone", "exit")
    /\ UNCHANGED << runPc, nextApp, semaphore, errChan, runResult, gateFrame >>

\* Run, line 78: wg.Wait()
GateWait ==
    /\ runPc = "gateWait"
    /\ wg = 0
    /\ runPc' = "gateDrain"
    /\ UNCHANGED << tempDir, nextApp, semaphore, wg, errChan, runResult, inStage,
                    outDirMade, manifests, applications, files, workerVars, cacheVars,
                    pIn, pOut >>

\* Run, lines 79-92: close(errChan), the range over it and the return
GateDrain ==
    /\ runPc = "gateDrain"
    /\ ReturnWith(Aggregate(errChan))
    /\ errChan' = << >>
    /\ UNCHANGED << nextApp, semaphore, wg, inStage, outDirMade, manifests, applications,
                    files, workerVars, cacheVars, pIn, pOut >>

GateNext ==
    \/ GateLoopNext
    \/ GateAdmit
    \/ GateProcess
    \/ GateSend
    \/ GateRelease
    \/ GateWgDone
    \/ GateWait
    \/ GateDrain

GateSpec == GateInit /\ [][GateNext]_vars

(***************************************************************************)
(* ParseApplications as a function of its input.                           *)
(***************************************************************************)
\* Application documents that differ from DocA in apiVersion or in kind alone
DocWrongVersion ==
    RawDoc("argoproj.io/v1beta1", "Application", << "v" >>, NoMap,
           Map1("rawRepository", UrlHttps), Empty, << "m" >>, Empty, FALSE, << >>)
DocWrongKind ==
    RawDoc("argoproj.io/v1alpha1", "AppProject", << "j" >>, NoMap,
           Map1("rawRepository", UrlHttps), Empty, << "m" >>, Empty, FALSE, << >>)
\* an Application with neither the rawRepository annotation nor spec.source.repoURL
DocNoRepo == AppDoc(<< "n" >>, NoMap, NoMap, Empty, << "m" >>, << >>)

ParserDocs == {DocA, DocB, DocConfigMap, DocWrongVersion, DocWrongKind, DocConflict,
               DocNoRepo, Malformed}

ParserInit ==
    /\ pIn \in SeqsUpTo(ParserDocs, MaxDocs)
    /\ pOut = [apps |-> << >>, err |-> "pending"]
    /\ runPc = "parser"
    /\ tempDir = "none"
    /\ outDirMade = FALSE
    /\ manifests = << >>
    /\ applications = << >>
    /\ nextApp = 1
    /\ semaphore = 0
    /\ wg = 0
    /\ errChan = << >>
    /\ mu = 0
    /\ clonedRepos = [k \in {} |-> 0]
    /\ cloneCounter = 0
    /\ pc = [w \in Workers |-> "queued"]
    /\ wKey = [w \in Workers |-> Empty]
    /\ wPath = [w \in Workers |-> 0]
    /\ wCached = [w \in Workers |-> FALSE]
    /\ wErr = [w \in Workers |-> ""]
    /\ cloneLog = {}
    /\ files = [f \in {} |-> 0]
    /\ runResult = Pending
    /\ inStage = [s \in GateStages |-> 0]

\* a call of ParseApplications on pIn
ParseCall ==
    /\ runPc = "parser"
    /\ pOut.err = "pending"
    /\ pOut' = ParseApplications(pIn)
    /\ UNCHANGED << runPc, tempDir, outDirMade, manifests, applications, nextApp,
                    semaphore, wg, errChan, files, runResult, inStage, pIn >>
    /\ UNCHANGED << workerVars, cacheVars >>

ParserNext == ParseCall

ParserSpec == ParserInit /\ [][ParserNext]_vars

(***************************************************************************)
(* newApplicationFromRaw as a function of its input.                       *)
(***************************************************************************)
EnvVar(name, value) == [Name |-> name, Value |-> value]

WERF_SET_ == << "W", "E", "R", "F", "_", "S", "E", "T", "_" >>

\* WERF_SET_INSTANCE with the values g=i, g=j and i (no "=")
SetInstanceI == EnvVar(WERF_SET_INSTANCE, << "g", "=", "i" >>)
SetInstanceJ == EnvVar(WERF_SET_INSTANCE, << "g", "=", "j" >>)
SetInstanceBare == EnvVar(WERF_SET_INSTANCE, << "i" >>)
\* WERF_SET_ENV with the value g=d
SetEnvD == EnvVar(WERF_SET_ENV, << "g", "=", "d" >>)
\* WERF_VALUES_2, WERF_VALUES_0 and WERF_VALUES_X
Values2 == EnvVar(WERF_VALUES_ \o << "2" >>, << "z" >>)
Values0 == EnvVar(WERF_VALUES_ \o << "0" >>, << "x" >>)
ValuesX == EnvVar(WERF_VALUES_ \o << "X" >>, << "w" >>)

\* longest plugin environment list of the resolver specification
MaxEnv == 3

\* the instance-setting and env-setting variables, with WERF_SET_ENV of the
\* value g=d=e (two "=")
IdentityVars ==
    {SetInstanceI, SetInstanceJ, SetInstanceBare, SetEnvD,
     EnvVar(WERF_SET_ENV, << "g", "=", "d", "=", "e" >>)}

\* values-file variables with the indices 2, 0, 1, -1, the largest int and the
\* integer after it, WERF_VALUES_X, FOO=bar, WERF_SET_TAG=t=u and an
\* instance-setting variable
OtherVars ==
    {Values2, Values0, ValuesX, SetInstanceI,
     EnvVar(WERF_VALUES_ \o << "1" >>, << "y" >>),
     EnvVar(WERF_VALUES_ \o << "-", "1" >>, << "v" >>),
     EnvVar(WERF_VALUES_ \o << "9", "2", "2", "3", "3", "7", "2", "0", "3", "6", "8", "5",
                               "4", "7", "7", "5", "8", "0", "7" >>, << "u" >>),
     EnvVar(WERF_VALUES_ \o << "9", "2", "2", "3", "3", "7", "2", "0", "3", "6", "8", "5",
                               "4", "7", "7", "5", "8", "0", "8" >>, << "t" >>),
     EnvVar(<< "F", "O", "O" >>, << "b", "a", "r" >>),
     EnvVar(WERF_SET_ \o << "T", "A", "G" >>, << "t", "=", "u" >>)}

\* label maps: instance absent, empty or i; env absent or d
LabelMaps ==
    {NoMap, Map1("instance", Empty), Map1("instance", << "i" >>), Map1("env", << "d" >>),
     Map2("instance", Empty, "env", << "d" >>),
     Map2("instance", << "i" >>, "env", << "d" >>)}

\* annotation maps: rawRepository absent, empty or https://h/p; rawPath absent, empty or q
AnnotationMaps ==
    {NoMap, Map1("rawRepository", Empty), Map1("rawRepository", UrlHttps),
     Map1("rawPath", Empty), Map1("rawPath", << "q" >>)}
    \cup {Map2("rawRepository", r, "rawPath", q) : r \in {Empty, UrlHttps},
                                                   q \in {Empty, << "q" >>}}

\* labels against the instance-setting and env-setting variables
IdentityDocs ==
    {AppDoc(<< "a" >>, labels, NoMap, UrlGit, << "m" >>, env) :
        labels \in LabelMaps, env \in SeqsUpTo(IdentityVars, MaxEnv)}

\* plugin environment lists of every kind of variable
EnvDocs ==
    {AppDoc(<< "a" >>, NoMap, NoMap, UrlGit, << "m" >>, env) :
        env \in SeqsUpTo(OtherVars, MaxEnv)}

\* annotations against spec.source, with and without a name
SourceDocs ==
    {RawDoc("argoproj.io/v1alpha1", "Application", name, NoMap, annotations, repoURL,
            << "m" >>, path, FALSE, << >>) :
        name \in {Empty, << "a" >>}, annotations \in AnnotationMaps,
        repoURL \in {Empty, UrlGit}, path \in {Empty, << "s" >>}}

ResolverDocs == IdentityDocs \cup EnvDocs \cup SourceDocs

ResolverInit ==
    /\ \E d \in ResolverDocs : pIn = << d >>
    /\ pOut = [apps |-> << >>, err |-> "pending"]
    /\ runPc = "resolver"
    /\ tempDir = "none"
    /\ outDirMade = FALSE
    /\ manifests = << >>
    /\ applications = << >>
    /\ nextApp = 1
    /\ semaphore = 0
    /\ wg = 0
    /\ errChan = << >>
    /\ mu = 0
    /\ clonedRepos = [k \in {} |-> 0]
    /\ cloneCounter = 0
    /\ pc = [w \in Workers |-> "queued"]
    /\ wKey = [w \in Workers |-> Empty]
    /\ wPath = [w \in Workers |-> 0]
    /\ wCached = [w \in Workers |-> FALSE]
    /\ wErr = [w \in Workers |-> ""]
    /\ cloneLog = {}
    /\ files = [f \in {} |-> 0]
    /\ runResult = Pending
    /\ inStage = [s \in GateStages |-> 0]

\* a call of newApplicationFromRaw on the document of pIn
ResolveCall ==
    /\ runPc = "resolver"
    /\ pOut.err = "pending"
    /\ pOut' = newApplicationFromRaw(pIn[1].raw)
    /\ UNCHANGED << runPc, tempDir, outDirMade, manifests, applications, nextApp,
                    semaphore, wg, errChan, files, runResult, inStage, pIn >>
    /\ UNCHANGED << workerVars, cacheVars >>

ResolverNext == ResolveCall

ResolverSpec == ResolverInit /\ [][ResolverNext]_vars

(***************************************************************************)
(* processApplication, lines 133-138, as a function of the repository URL  *)
(* and the revision of two descriptors.                                    *)
(***************************************************************************)
SchemeSep == << ":", "/", "/" >>

\* the addresses of repository p on host h
HttpsUrl(h, p) == Https \o SchemeSep \o h \o << "/" >> \o p
HttpUrl(h, p) == Http \o SchemeSep \o h \o << "/" >> \o p
GitUrl(h, p) == GitAt \o h \o << ":" >> \o p
SshUrl(h, p) == << "s", "s", "h" >> \o SchemeSep \o h \o << "/" >> \o p
UserUrl(h, p) == << "b", "@" >> \o h \o << ":" >> \o p

\* h, h.i and h:8
Hosts == {<< "h" >>, << "h", ".", "i" >>, << "h", ":", "8" >>}
\* p and p/q
Paths == {<< "p" >>, << "p", "/", "q" >>}

\* the addresses of every host and path, and "", :p, h/p, /t/r,
\* https://h:x/p, HTTPS://h/p, Http://h/p, Ssh://h/p and A:b
RepoUrls ==
    UNION {{HttpsUrl(h, p), HttpUrl(h, p), GitUrl(h, p), SshUrl(h, p), UserUrl(h, p)} :
              h \in Hosts, p \in Paths}
    \cup {Empty, << ":", "p" >>, << "h", "/", "p" >>, << "/", "t", "/", "r" >>,
          Https \o SchemeSep \o << "h", ":", "x", "/", "p" >>,
          << "H", "T", "T", "P", "S" >> \o SchemeSep \o << "h", "/", "p" >>,
          << "H", "t", "t", "p" >> \o SchemeSep \o << "h", "/", "p" >>,
          << "S", "s", "h" >> \o SchemeSep \o << "h", "/", "p" >>,
          << "A", ":", "b" >>}

RepoRefs == [RepoURL : RepoUrls, TargetRevision : {<< "m" >>, << "n" >>}]

\* sshURL, err and cacheKey of processApplication for one descriptor
NormalizeRef(app) ==
    LET ssh == convertHTTPtoSSH(app.RepoURL)
    IN  [err |-> ssh.err, url |-> ssh.url,
         key |-> IF ssh.err THEN Empty ELSE CacheKey(ssh.url, app.TargetRevision)]

NormalizerInit ==
    /\ pIn \in [1..2 -> RepoRefs]
    /\ pOut = [apps |-> << >>, err |-> "pending"]
    /\ runPc = "normalizer"
    /\ tempDir = "none"
    /\ outDirMade = FALSE
    /\ manifests = << >>
    /\ applications = << >>
    /\ nextApp = 1
    /\ semaphore = 0
    /\ wg = 0
    /\ errChan = << >>
    /\ mu = 0
    /\ clonedRepos = [k \in {} |-> 0]
    /\ cloneCounter = 0
    /\ pc = [w \in Workers |-> "queued"]
    /\ wKey = [w \in Workers |-> Empty]
    /\ wPath = [w \in Workers |-> 0]
    /\ wCached = [w \in Workers |-> FALSE]
    /\ wErr = [w \in Workers |-> ""]
    /\ cloneLog = {}
    /\ files = [f \in {} |-> 0]
    /\ runResult = Pending
    /\ inStage = [s \in GateStages |-> 0]

\* the normalization step of the two descriptors of pIn
NormalizeCall ==
    /\ runPc = "normalizer"
    /\ pOut.err = "pending"
    /\ pOut' = [err |-> "", results |-> [i \in 1..2 |-> NormalizeRef(pIn[i])]]
    /\ UNCHANGED << runPc, tempDir, outDirMade, manifests, applications, nextApp,
                    semaphore, wg, errChan, files, runResult, inStage, pIn >>
    /\ UNCHANGED << workerVars, cacheVars >>

NormalizerNext == NormalizeCall

NormalizerSpec == NormalizerInit /\ [][NormalizerNext]_vars

(***************************************************************************)
(* processApplication, lines 117-131, as a function of the descriptor.     *)
(***************************************************************************)
\* the descriptors newApplicationFromRaw returns for the documents of
\* IdentityDocs: instance "", i or j, env "", d or d=e, the variables kept in
\* the plugin environment, and the setters the resolver leaves them with
OverrideApps ==
    {newApplicationFromRaw(d.raw).app :
        d \in {x \in IdentityDocs : newApplicationFromRaw(x.raw).err = ""}}

OverrideInit ==
    /\ \E app \in OverrideApps : pIn = << app >>
    /\ pOut = [apps |-> << >>, err |-> "pending"]
    /\ runPc = "override"
    /\ tempDir = "none"
    /\ outDirMade = FALSE
    /\ manifests = << >>
    /\ applications = << >>
    /\ nextApp = 1
    /\ semaphore = 0
    /\ wg = 0
    /\ errChan = << >>
    /\ mu = 0
    /\ clonedRepos = [k \in {} |-> 0]
    /\ cloneCounter = 0
    /\ pc = [w \in Workers |-> "queued"]
    /\ wKey = [w \in Workers |-> Empty]
    /\ wPath = [w \in Workers |-> 0]
    /\ wCached = [w \in Workers |-> FALSE]
    /\ wErr = [w \in Workers |-> ""]
    /\ cloneLog = {}
    /\ files = [f \in {} |-> 0]
    /\ runResult = Pending
    /\ inStage = [s \in GateStages |-> 0]

\* the override map processApplication builds for the descriptor of pIn, and
\* the descriptor as the call leaves it
OverrideCall ==
    /\ runPc = "override"
    /\ pOut.err = "pending"
    /\ pOut' = [err |-> "", values |-> AppOpts(pIn[1], 1).SetValues,
                app |-> DescriptorAfter(pIn[1])]
    /\ UNCHANGED << runPc, tempDir, outDirMade, manifests, applications, nextApp,
                    semaphore, wg, errChan, files, runResult, inStage, pIn >>
    /\ UNCHANGED << workerVars, cacheVars >>

OverrideNext == OverrideCall

OverrideSpec == OverrideInit /\ [][OverrideNext]_vars

(***************************************************************************)
(* newApplicationFromRaw on values-file variables with equal indices.      *)
(***************************************************************************)
\* the path of the values-file variable at position k of the input list
PathAt(k) ==
    << << "a" >>, << "b" >>, << "c" >>, << "d" >>, << "e" >>, << "f" >>, << "g" >>,
       << "h" >>, << "i" >>, << "j" >>, << "k" >>, << "l" >>, << "m" >> >>[k]

\* WERF_VALUES_0 or WERF_VALUES_1 at every position, each variable with the
\* path of its position
TiedEnv(indices) ==
    [k \in 1..Len(indices) |-> EnvVar(WERF_VALUES_ \o << indices[k] >>, PathAt(k))]

\* lists of 2, 3, maxInsertion and maxInsertion + 1 values-file variables
TiedDocs ==
    {AppDoc(<< "a" >>, NoMap, NoMap, UrlGit, << "m" >>, TiedEnv(indices)) :
        indices \in UNION {[1..n -> {"0", "1"}] : n \in {2, 3, maxInsertion, maxInsertion + 1}}}

SorterInit ==
    /\ \E d \in TiedDocs : pIn = << d >>
    /\ pOut = [apps |-> << >>, err |-> "pending"]
    /\ runPc = "sorter"
    /\ tempDir = "none"
    /\ outDirMade = FALSE
    /\ manifests = << >>
    /\ applications = << >>
    /\ nextApp = 1
    /\ semaphore = 0
    /\ wg = 0
    /\ errChan = << >>
    /\ mu = 0
    /\ clonedRepos = [k \in {} |-> 0]
    /\ cloneCounter = 0
    /\ pc = [w \in Workers |-> "queued"]
    /\ wKey = [w \in Workers |-> Empty]
    /\ wPath = [w \in Workers |-> 0]
    /\ wCached = [w \in Workers |-> FALSE]
    /\ wErr = [w \in Workers |-> ""]
    /\ cloneLog = {}
    /\ files = [f \in {} |-> 0]
    /\ runResult = Pending
    /\ inStage = [s \in GateStages |-> 0]

\* a call of newApplicationFromRaw on the document of pIn
SortCall ==
    /\ runPc = "sorter"
    /\ pOut.err = "pending"
    /\ pOut' = newApplicationFromRaw(pIn[1].raw)
    /\ UNCHANGED << runPc, tempDir, outDirMade, manifests, applications, nextApp,
                    semaphore, wg, errChan, files, runResult, inStage, pIn >>
    /\ UNCHANGED << workerVars, cacheVars >>

SorterNext == SortCall

SorterSpec == SorterInit /\ [][SorterNext]_vars

(***************************************************************************)
(* Run under a fair scheduler: as long as some goroutine can take a step,  *)
(* a step is eventually taken.  Both the orchestrator and the admission    *)
(* gate.                                                                   *)
(***************************************************************************)
LiveInit == Init \/ GateInit

LiveNext == Next \/ GateNext

LiveSpec == LiveInit /\ [][LiveNext]_vars /\ WF_vars(LiveNext)

(***************************************************************************)
(* The claims.                                                             *)
(***************************************************************************)
WorkerPhase == runPc = "returned" /\ runResult.err \in {"", "failed to process application(s)"}

Started == 1..Len(applications)

\* C1: git.Clone is invoked at most once for each cache key
\* normalizedRepo@targetRevision, under every interleaving of the workers, also
\* when several workers with the same key are in flight at the same time.
\* Stated for the invocations that succeed: no key is cloned a second time
\* after, or while, a clone of it succeeds.
C1_CloneOncePerKey ==
    \A e1, e2 \in cloneLog : (e1.key = e2.key /\ e1.ok /\ e2.ok) => e1 = e2

\* the workers that hold a slot, and those of them inside processApplication
SlotHolders == {w \in Workers : pc[w] \notin {"queued", "wgDone", "exit"}}
Processing == {w \in SlotHolders : pc[w] \notin {"send", "release"}}

\* C2: at most 10 workers are inside processApplication at any time; the slots
\* held are exactly those of the workers admitted and not yet released, so a
\* worker is admitted only into a free slot and frees one slot when it ends,
\* with or without an error.  Workers are those counted by position and those
\* followed one by one.
C2_AtMostTenInFlight ==
    /\ inStage["process"] + Cardinality(Processing) <= 10
    /\ semaphore <= 10
    /\ semaphore = inStage["process"] + inStage["send"] + inStage["release"]
                      + Cardinality(SlotHolders)

\* an eleventh descriptor waits on the gate while ten workers are in processApplication
C2_Witness == runPc = "gateAdmit" /\ inStage["process"] = 10 /\ nextApp = 11

\* C3: when Run returns from the worker phase every descriptor's worker has run
\* to its end, and every worker whose own steps all succeeded has written its
\* output file, whatever happened to the other workers.
C3_FailureIsolation ==
    WorkerPhase =>
        \A w \in Started :
            /\ pc[w] = "exit"
            /\ wErr[w] = "" => OutputFile(applications[w]) \in DOMAIN files

\* a run in which one worker failed and its sibling wrote its file
C3_Witness ==
    /\ WorkerPhase
    /\ \E w1, w2 \in Started :
          /\ wErr[w1] = "clone"
          /\ wErr[w2] = ""
          /\ OutputFile(applications[w2]) \in DOMAIN files

\* C4: Run returns no error exactly when no worker failed; otherwise the error
\* counts the failed workers and surfaces the error of one of them.
C4_AggregateError ==
    WorkerPhase =>
        LET failed == {w \in Started : wErr[w] # ""}
        IN  /\ (runResult.err = "") <=> (failed = {})
            /\ runResult.count = Cardinality(failed)
            /\ failed # {} =>
                  /\ runResult.first.w \in failed
                  /\ runResult.first.stage = wErr[runResult.first.w]

\* a run in which two workers failed at different steps
C4_Witness ==
    /\ WorkerPhase
    /\ runResult.count = 2
    /\ \E w1, w2 \in Started : wErr[w1] = "clone" /\ wErr[w2] = "render"

SequentialPrefix == {"mkdirTemp", "mkdirOutput", "renderRoot", "parse"}

NoWorkerStarted ==
    /\ \A w \in Workers : pc[w] = "queued"
    /\ cloneLog = {}
    /\ DOMAIN files = {}
    /\ semaphore = 0

AllWorkersEnded ==
    /\ runPc = "drain" => \A w \in Started : pc[w] = "exit"
    /\ runPc = "gateDrain" => inStage["exit"] = Len(applications)

\* a worker about to send its error finds room in the collector
SendHasRoom ==
    ((\E w \in Workers : pc[w] = "send") \/ inStage["send"] > 0)
        => Len(errChan) < Len(applications)

\* C5: under a fair scheduler Run eventually returns, for every number of
\* descriptors and every pattern of worker failures; no worker waits on the
\* error collector, and the collector is drained only after every worker has
\* ended.
C5_RunReturns ==
    /\ <>(runPc = "returned")
    /\ [](runPc \in {"drain", "gateDrain"} => AllWorkersEnded)
    /\ []SendHasRoom

\* Run has returned from more descriptors than slots, some of whose workers failed
C5_Witness ==
    /\ runPc = "returned"
    /\ Len(applications) > maxConcurrency
    /\ inStage["exit"] = Len(applications)
    /\ runResult.count > 1

\* C6: while the root render or the descriptor resolution is still to run or
\* running, no worker has been admitted: no clone, child render or output write
\* has happened.
C6_RootBeforeWorkers == runPc \in SequentialPrefix => NoWorkerStarted

\* the resolution is about to return two descriptors and no worker has started
C6_Witness ==
    /\ runPc = "parse"
    /\ Len(ParseApplications(manifests).apps) = 2
    /\ NoWorkerStarted

\* a document that fails the resolution: it does not decode, or it is an
\* Application with conflicting instance/env values or without a repository
FailsResolution(d) ==
    \/ ~d.decodes
    \/ /\ d.raw.ApiVersion = "argoproj.io/v1alpha1"
       /\ d.raw.Kind = "Application"
       /\ newApplicationFromRaw(d.raw).err # ""

InitErrors == {"failed to create temp directory", "failed to create output directory",
               "initialization failed"}

\* C7: when a directory cannot be created, the root render fails or a document
\* of the root render fails the resolution, Run returns the error at once and
\* no worker is started, also for the valid applications of the same input.
C7_InitFailureStartsNoWorker ==
    /\ runResult.err \in InitErrors => (runPc = "returned" /\ NoWorkerStarted)
    /\ (runPc \notin SequentialPrefix /\ \E i \in 1..Len(manifests) : FailsResolution(manifests[i]))
          => runResult.err = "initialization failed"

\* the resolution failed on an input that also holds a valid application
C7_Witness ==
    /\ runResult.err = "initialization failed"
    /\ Len(manifests) = 2
    /\ manifests[1] = DocA
    /\ manifests[2] = DocConflict

\* C8: once clonedRepos holds a path for a key, the key keeps that path: an
\* entry is never overwritten and never removed.
C8_CacheEntryStable ==
    [][\A k \in DOMAIN clonedRepos :
          k \in DOMAIN clonedRepos' /\ clonedRepos'[k] = clonedRepos[k]]_vars

\* the descriptors of the documents with the Application apiVersion and kind
RECURSIVE ExpectedApps(_)
ExpectedApps(docs) ==
    IF docs = << >> THEN << >>
    ELSE LET d == Head(docs)
         IN  (IF d.raw.ApiVersion = "argoproj.io/v1alpha1" /\ d.raw.Kind = "Application"
              THEN << newApplicationFromRaw(d.raw).app >> ELSE << >>)
             \o ExpectedApps(Tail(docs))

Parsed == pOut.err # "pending"

\* C9: on an input whose documents all decode and resolve, ParseApplications
\* returns the descriptors of the documents with apiVersion argoproj.io/v1alpha1
\* and kind Application, in input order, and nothing for any other document.
C9_ApplicationsInOrder ==
    (Parsed /\ \A i \in 1..Len(pIn) : ~FailsResolution(pIn[i])) =>
        /\ pOut.err = ""
        /\ pOut.apps = ExpectedApps(pIn)

\* two Applications around a document of the wrong kind
C9_Witness ==
    /\ Parsed
    /\ pIn = << DocA, DocWrongKind, DocB >>
    /\ Len(pOut.apps) = 2
    /\ pOut.apps[1].Name = << "a" >>
    /\ pOut.apps[2].Name = << "b" >>

\* C10: when a document does not decode or an Application document fails the
\* resolution, ParseApplications returns an error and no descriptor, also when
\* valid Application documents come before it.
C10_FailFast ==
    (Parsed /\ \E i \in 1..Len(pIn) : FailsResolution(pIn[i])) =>
        /\ pOut.err # ""
        /\ pOut.apps = << >>

\* a valid Application followed by a document that does not decode
C10_Witness ==
    /\ Parsed
    /\ pIn = << DocA, Malformed >>
    /\ pOut.err = "failed to decode yaml document"

(***************************************************************************)
(* Claims on the resolution of one document.                               *)
(***************************************************************************)
Resolved == runPc = "resolver" /\ pOut.err # "pending"

\* the document given to the resolver and its plugin environment list
InRaw == pIn[1].raw
InEnv == IF InRaw.HasPlugin THEN InRaw.PluginEnv ELSE << >>

\* the value of label k, "" when the label is absent
LabelValue(k) == IF k \in DOMAIN InRaw.Labels THEN InRaw.Labels[k] ELSE Empty

\* the text after the first "=" of the last variable called `name`, "" when
\* there is no such variable or its value has no "="
PluginValue(name) ==
    LET at == {k \in 1..Len(InEnv) : InEnv[k].Name = name}
    IN  IF at = {} THEN Empty
        ELSE LET last == CHOOSE k \in at : \A j \in at : j <= k
                 v == InEnv[last].Value
                 eq == {i \in 1..Len(v) : v[i] = "="}
             IN  IF eq = {} THEN Empty
                 ELSE LET first == CHOOSE i \in eq : \A j \in eq : i <= j
                      IN  [n \in 1..(Len(v) - first) |-> v[first + n]]

Differ(a, b) == a # Empty /\ b # Empty /\ a # b

\* the one value of two sources that do not differ
OneOf(a, b) == IF a # Empty THEN a ELSE b

\* the document has a repository: the annotation or spec.source.repoURL
HasRepository ==
    \/ ("rawRepository" \in DOMAIN InRaw.Annotations
            /\ InRaw.Annotations["rawRepository"] # Empty)
    \/ InRaw.RepoURL # Empty

\* C11: instance and env are each resolved from the label and from the value
\* extracted from WERF_SET_INSTANCE / WERF_SET_ENV.  Two values that are both
\* present and differ fail the resolution with an error naming both; otherwise
\* the resolution of a document with a repository succeeds, with the common
\* value when both are present, the present one when one is, and "" when
\* neither is.
C11_InstanceEnvResolution ==
    Resolved =>
        LET il == LabelValue("instance")
            ip == PluginValue(WERF_SET_INSTANCE)
            el == LabelValue("env")
            ep == PluginValue(WERF_SET_ENV)
        IN  /\ Differ(il, ip) =>
                  /\ pOut.err = "conflicting values for 'instance'"
                  /\ pOut.values = << il, ip >>
            /\ (~Differ(il, ip) /\ Differ(el, ep)) =>
                  /\ pOut.err = "conflicting values for 'env'"
                  /\ pOut.values = << el, ep >>
            /\ (~Differ(il, ip) /\ ~Differ(el, ep) /\ HasRepository) =>
                  /\ pOut.err = ""
                  /\ pOut.app.Instance = OneOf(il, ip)
                  /\ pOut.app.Env = OneOf(el, ep)
                  /\ (il = Empty /\ ip = Empty) => pOut.app.Instance = Empty
                  /\ (el = Empty /\ ep = Empty) => pOut.app.Env = Empty

\* label instance=i against WERF_SET_INSTANCE=g=j: the error names i and j
C11_Witness ==
    /\ Resolved
    /\ LabelValue("instance") = << "i" >>
    /\ InEnv = << SetInstanceJ >>
    /\ pOut.err = "conflicting values for 'instance'"
    /\ pOut.values = << << "i" >>, << "j" >> >>

\* the digits of an integer text, without its sign
Body(s) == IF s # Empty /\ s[1] \in {"+", "-"} THEN Tail(s) ELSE s

\* the text is negative: a minus sign and a digit other than 0
Negative(s) == s # Empty /\ s[1] = "-" /\ \E i \in 2..Len(s) : s[i] # "0"

\* d with zeros in front, n digits wide
RECURSIVE PadTo(_, _)
PadTo(d, n) == IF Len(d) >= n THEN d ELSE PadTo(<< "0" >> \o d, n)

\* x is at most y, for digit texts of one width
LexAtMost(x, y) ==
    \/ x = y
    \/ \E i \in 1..Len(x) :
          DigitVal(x[i]) < DigitVal(y[i]) /\ \A j \in 1..(i - 1) : x[j] = y[j]

\* the magnitude of x is at most the magnitude of y
MagAtMost(x, y) ==
    LET n == IF Len(x) > Len(y) THEN Len(x) ELSE Len(y)
    IN  LexAtMost(PadTo(x, n), PadTo(y, n))

\* 2^63 - 1, and 2^63 for a negative text
IntLimit(s) ==
    << "9", "2", "2", "3", "3", "7", "2", "0", "3", "6", "8", "5", "4", "7", "7", "5",
       "8", "0", IF Negative(s) THEN "8" ELSE "7" >>

\* s is an optional sign followed by one or more decimal digits, and the
\* integer it denotes is an int of 64 bits
IsIntegerText(s) ==
    /\ Body(s) # Empty
    /\ \A i \in 1..Len(Body(s)) : Body(s)[i] \in Digits
    /\ MagAtMost(Body(s), IntLimit(s))

\* the integer of the text s is at most the integer of the text t
AtMost(s, t) ==
    IF Negative(s) # Negative(t) THEN Negative(s)
    ELSE IF Negative(s) THEN MagAtMost(Body(t), Body(s))
    ELSE MagAtMost(Body(s), Body(t))

\* the text after WERF_VALUES_ of the name of the k-th input variable
SuffixAt(k) ==
    [n \in 1..(Len(InEnv[k].Name) - Len(WERF_VALUES_)) |-> InEnv[k].Name[Len(WERF_VALUES_) + n]]

IsValuesVar(k) ==
    /\ Len(InEnv[k].Name) >= Len(WERF_VALUES_)
    /\ \A n \in 1..Len(WERF_VALUES_) : InEnv[k].Name[n] = WERF_VALUES_[n]

\* positions of the WERF_VALUES_<i> variables whose <i> is an integer
IndexedAt == {k \in 1..Len(InEnv) : IsValuesVar(k) /\ IsIntegerText(SuffixAt(k))}

\* positions of the WERF_VALUES_ variables whose suffix is not an integer
DroppedAt == {k \in 1..Len(InEnv) : IsValuesVar(k) /\ ~IsIntegerText(SuffixAt(k))}

\* C12: valuesFiles is exactly the values of the WERF_VALUES_<i> variables
\* whose <i> is an integer, each once, by ascending <i>, whatever the input
\* order; a WERF_VALUES_ variable with another suffix raises no error and is in
\* neither valuesFiles nor pluginEnv.
C12_ValuesFilesAscending ==
    /\ (Resolved /\ InRaw.Labels = NoMap /\ HasRepository) => pOut.err = ""
    /\ (Resolved /\ pOut.err = "") =>
          LET vf == pOut.app.ValuesFiles
          IN  /\ Len(vf) = Cardinality(IndexedAt)
              /\ \E f \in [1..Len(vf) -> IndexedAt] :
                    /\ \A i, j \in 1..Len(vf) : i # j => f[i] # f[j]
                    /\ \A i \in 1..Len(vf) : vf[i] = InEnv[f[i]].Value
                    /\ \A i, j \in 1..Len(vf) :
                          i < j => AtMost(SuffixAt(f[i]), SuffixAt(f[j]))
              /\ \A k \in DroppedAt :
                    /\ \A i \in 1..Len(vf) : vf[i] # InEnv[k].Value
                    /\ \A i \in 1..Len(pOut.app.PluginEnv) : pOut.app.PluginEnv[i] # InEnv[k]

\* WERF_VALUES_2, WERF_VALUES_X, WERF_VALUES_0 give the files of 0 and of 2
C12_Witness ==
    /\ Resolved
    /\ InEnv = << Values2, ValuesX, Values0 >>
    /\ pOut.err = ""
    /\ pOut.app.ValuesFiles = << << "x" >>, << "z" >> >>
    /\ pOut.app.PluginEnv = << >>

\* the annotation k is there, whatever its value
Annotated(k) == k \in DOMAIN InRaw.Annotations

\* no instance or env conflict stops the resolution before the repository step
NoConflict ==
    /\ ~Differ(LabelValue("instance"), PluginValue(WERF_SET_INSTANCE))
    /\ ~Differ(LabelValue("env"), PluginValue(WERF_SET_ENV))

\* C13: repoURL is the rawRepository annotation when present and non-empty,
\* else spec.source.repoURL, and the resolution fails when both are empty;
\* path is the rawPath annotation whenever the key exists, also when its value
\* is empty, else spec.source.path, else ".".
C13_RepositoryPathFallback ==
    (Resolved /\ NoConflict) =>
        LET annotated == Annotated("rawRepository") /\ InRaw.Annotations["rawRepository"] # Empty
        IN  /\ annotated =>
                  pOut.err = "" /\ pOut.app.RepoURL = InRaw.Annotations["rawRepository"]
            /\ (~annotated /\ InRaw.RepoURL # Empty) =>
                  pOut.err = "" /\ pOut.app.RepoURL = InRaw.RepoURL
            /\ (~annotated /\ InRaw.RepoURL = Empty) =>
                  pOut.err = "both 'rawRepository' annotation and 'spec.source.repoURL' are empty"
            /\ pOut.err = "" =>
                  /\ Annotated("rawPath") => pOut.app.Path = InRaw.Annotations["rawPath"]
                  /\ (~Annotated("rawPath") /\ InRaw.Path # Empty) =>
                        pOut.app.Path = InRaw.Path
                  /\ (~Annotated("rawPath") /\ InRaw.Path = Empty) =>
                        pOut.app.Path = << "." >>

\* an empty rawRepository falls back to spec.source.repoURL while an empty
\* rawPath is kept, although spec.source.path is s
C13_Witness ==
    /\ Resolved
    /\ InRaw.Annotations = Map2("rawRepository", Empty, "rawPath", Empty)
    /\ InRaw.RepoURL = UrlGit
    /\ InRaw.Path = << "s" >>
    /\ pOut.err = ""
    /\ pOut.app.RepoURL = UrlGit
    /\ pOut.app.Path = Empty

\* C14: a successful resolution returns a descriptor with a non-empty name and
\* a non-empty repoURL; a document with an empty metadata.name, or with both
\* repository sources empty, fails the resolution.
C14_NameAndRepoNonEmpty ==
    Resolved =>
        /\ pOut.err = "" => (pOut.app.Name # Empty /\ pOut.app.RepoURL # Empty)
        /\ (InRaw.Name = Empty \/ ~HasRepository) => pOut.err # ""

\* a variable that is neither the instance-setting, nor the env-setting, nor a
\* values-file variable
IsResidual(e) ==
    /\ e.Name # WERF_SET_INSTANCE
    /\ e.Name # WERF_SET_ENV
    /\ ~(Len(e.Name) >= Len(WERF_VALUES_)
            /\ \A n \in 1..Len(WERF_VALUES_) : e.Name[n] = WERF_VALUES_[n])

\* C15: pluginEnv is the input list without the WERF_SET_INSTANCE, WERF_SET_ENV
\* and values-file variables, the others unchanged and in their input order;
\* an input of only WERF_SET_INSTANCE and WERF_SET_ENV gives an empty pluginEnv.
C15_PluginEnvResidual ==
    (Resolved /\ pOut.err = "") => pOut.app.PluginEnv = SelectSeq(InEnv, IsResidual)

\* s starts with WERF_SET_ and its value has a "="
IsSetter(e) ==
    /\ Len(e.Name) >= Len(WERF_SET_)
    /\ \A n \in 1..Len(WERF_SET_) : e.Name[n] = WERF_SET_[n]
    /\ \E i \in 1..Len(e.Value) : e.Value[i] = "="

FirstEq(v) == CHOOSE i \in 1..Len(v) : v[i] = "=" /\ \A j \in 1..(i - 1) : v[j] # "="
SetterKey(e) == [n \in 1..(FirstEq(e.Value) - 1) |-> e.Value[n]]
SetterValue(e) ==
    [n \in 1..(Len(e.Value) - FirstEq(e.Value)) |-> e.Value[FirstEq(e.Value) + n]]

\* the setters of the input list; a later variable replaces an earlier one
\* with the same key
ExpectedSetters ==
    LET at == {k \in 1..Len(InEnv) : IsSetter(InEnv[k])}
        keys == {SetterKey(InEnv[k]) : k \in at}
    IN  [key \in keys |->
            LET last == CHOOSE k \in at :
                            /\ SetterKey(InEnv[k]) = key
                            /\ \A j \in at : SetterKey(InEnv[j]) = key => j <= k
            IN  SetterValue(InEnv[last])]

\* C16: the setters of the resolved descriptor hold, for every WERF_SET_
\* variable (the instance-setting and env-setting ones too) whose value has a
\* "=", the text before the first "=" as key and the text after it as value,
\* nothing for a value without "=", and nothing else.
C16_SettersExtracted ==
    (Resolved /\ pOut.err = "") => pOut.app.Setters.kv = ExpectedSetters

(***************************************************************************)
(* Claims on the normalization of the repository URL.                      *)
(***************************************************************************)
Normalized == runPc = "normalizer" /\ pOut.err # "pending"

\* the address starts with http:// or https://, in letters of either case
IsHttpAddress(u) ==
    \E n \in {4, 5} :
        /\ Len(u) >= n + 3
        /\ \A k \in 1..3 : u[n + k] = SchemeSep[k]
        /\ \A k \in 1..n :
              u[k] \in {<< "h", "t", "t", "p", "s" >>[k], << "H", "T", "T", "P", "S" >>[k]}

\* C17: the normalizer returns a result and no error for every input string,
\* and returns unchanged an input that is neither an http nor an https URL,
\* such as a string that does not parse as a URL or user@host:path with a
\* user other than git.
C17_NormalizerTotal ==
    Normalized =>
        \A i \in 1..2 :
            /\ ~pOut.results[i].err
            /\ (/\ \A h \in Hosts, p \in Paths :
                      pIn[i].RepoURL \notin {HttpsUrl(h, p), HttpUrl(h, p)}
                /\ ~IsHttpAddress(pIn[i].RepoURL))
                  => pOut.results[i].url = pIn[i].RepoURL

\* the addresses that name repository p of host h under the three schemes
SameRepository(h, p) == {HttpsUrl(h, p), HttpUrl(h, p), GitUrl(h, p)}

\* C18: https://h/p, http://h/p and git@h:p all normalize to git@h:p, an
\* address of another scheme is returned unchanged, and two descriptors whose
\* addresses differ only in the scheme of the same repository and whose
\* revisions are equal have the same cache key.
C18_SchemesShareKey ==
    Normalized =>
        /\ \A i \in 1..2 : \A h \in Hosts, p \in Paths :
              /\ pIn[i].RepoURL \in SameRepository(h, p) =>
                    (~pOut.results[i].err /\ pOut.results[i].url = GitUrl(h, p))
              /\ pIn[i].RepoURL = SshUrl(h, p) =>
                    (~pOut.results[i].err /\ pOut.results[i].url = SshUrl(h, p))
        /\ \A h \in Hosts, p \in Paths :
              (/\ pIn[1].RepoURL \in SameRepository(h, p)
               /\ pIn[2].RepoURL \in SameRepository(h, p)
               /\ pIn[1].TargetRevision = pIn[2].TargetRevision)
                => pOut.results[1].key = pOut.results[2].key

\* https://h.i/p/q and git@h.i:p/q at revision m have the key git@h.i:p/q@m
C18_Witness ==
    /\ Normalized
    /\ pIn[1] = [RepoURL |-> HttpsUrl(<< "h", ".", "i" >>, << "p", "/", "q" >>),
                 TargetRevision |-> << "m" >>]
    /\ pIn[2] = [RepoURL |-> GitUrl(<< "h", ".", "i" >>, << "p", "/", "q" >>),
                 TargetRevision |-> << "m" >>]
    /\ pOut.results[1].key = pOut.results[2].key
    /\ pOut.results[1].key =
          << "g", "i", "t", "@", "h", ".", "i", ":", "p", "/", "q", "@", "m" >>

(***************************************************************************)
(* Claims on the override map and on the output file.                      *)
(***************************************************************************)
Overridden == runPc = "override" /\ pOut.err # "pending"

ExpectedFile(app) ==
    << << "o", "u", "t" >> >>
        \o (IF app.Env = Empty THEN << >> ELSE << app.Env >>)
        \o (IF app.Instance = Empty THEN << >> ELSE << app.Instance >>)
        \o << app.Name \o << ".", "y", "a", "m", "l" >> >>

\* worker w has returned nil from processApplication
Succeeded(w) == pc[w] \in {"release", "wgDone", "exit"} /\ wErr[w] = ""

\* worker w takes the step in which os.WriteFile returns nil
Writes(w) == pc[w] = "writeBytes" /\ pc'[w] = "release" /\ wErr'[w] = ""

\* C20: a worker that succeeds has written one file, at
\* <outputDir>/<env>/<instance>/<name>.yaml with the env level only for a
\* non-empty env, the instance level only for a non-empty instance, env above
\* instance.  When its os.WriteFile returns nil the file holds the rendered
\* bytes unchanged, whether it was there before or not, and no step of a
\* worker touches a file other than its own.
C20_OneOutputFile ==
    /\ [](\A w \in Started : Succeeded(w) => ExpectedFile(applications[w]) \in DOMAIN files)
    /\ [][\A w \in Workers :
              /\ Writes(w) =>
                    files'[ExpectedFile(applications[w])] =
                        << [bytes |-> RenderedApp(w), part |-> FALSE] >>
              /\ pc'[w] # pc[w] =>
                    /\ DOMAIN files' \subseteq DOMAIN files \cup {ExpectedFile(applications[w])}
                    /\ \A f \in DOMAIN files \ {ExpectedFile(applications[w])} :
                          f \in DOMAIN files' /\ files'[f] = files[f]]_vars

(***************************************************************************)
(* Claims on the workspace, the worker stages and the clone cache.         *)
(***************************************************************************)
\* C21: once the temporary workspace was created, Run removes it on every
\* return: after a run without failure, after a run with failed workers and
\* after an input or environment error; the one return that leaves nothing to
\* remove is the failure to create it.  It is removed only when Run returns,
\* after every admitted worker has run to its end.
C21_WorkspaceRemoved ==
    /\ runPc = "returned" =>
          IF runResult.err = "failed to create temp directory"
          THEN tempDir = "none"
          ELSE tempDir = "removed"
    /\ tempDir = "removed" =>
          /\ runPc = "returned"
          /\ \A w \in Workers : pc[w] \in {"queued", "exit"}
          /\ \A w \in Started : WorkerPhase => pc[w] = "exit"
    /\ runPc \notin {"mkdirTemp", "returned"} => tempDir = "exists"

\* Run has returned the aggregate error of a run in which a clone was made and
\* a worker failed, and the workspace is gone
C21_Witness ==
    /\ runPc = "returned"
    /\ runResult.err = "failed to process application(s)"
    /\ \E e \in cloneLog : e.ok
    /\ tempDir = "removed"

\* the stage of a worker at position p with error e
StageOf(p, e) ==
    IF p \in {"queued", "start", "lockLookup", "lookup"} THEN "Queued"
    ELSE IF p \in {"lockCount", "count", "clone", "lockInsert", "insert"} THEN "Cloning"
    ELSE IF p = "render" THEN "Rendering"
    ELSE IF p \in {"mkdir", "write", "writeBytes"} THEN "Writing"
    ELSE IF e = "" THEN "Done"
    ELSE "Failed"

\* the stage changes of a worker; Queued to Rendering is the cache hit
StageSteps ==
    {<< "Queued", "Cloning" >>, << "Queued", "Rendering" >>, << "Cloning", "Rendering" >>,
     << "Rendering", "Writing" >>, << "Writing", "Done" >>,
     << "Cloning", "Failed" >>, << "Rendering", "Failed" >>, << "Writing", "Failed" >>}

\* C22: a worker goes Queued -> (Cloning | cache hit) -> Rendering -> Writing
\* -> Done and reaches Failed from Cloning, Rendering or Writing only; Done and
\* Failed are never left and no stage is entered again, so a worker that
\* failed at cloning never renders or writes and one that failed at rendering
\* never writes.
C22_WorkerStages ==
    [][\A w \in Workers :
          LET from == StageOf(pc[w], wErr[w])
              to == StageOf(pc'[w], wErr'[w])
          IN  from # to => << from, to >> \in StageSteps]_vars

Sorted == runPc = "sorter" /\ pOut.err # "pending"

\* the position in valuesFiles of the path of input position k
PlaceOf(k) == CHOOSE i \in 1..Len(pOut.app.ValuesFiles) : pOut.app.ValuesFiles[i] = PathAt(k)

\* C23: valuesFiles holds every path once, by ascending index, and two
\* variables with the same index keep their input order.
C23_StableOrder ==
    Sorted =>
        /\ pOut.err = ""
        /\ Len(pOut.app.ValuesFiles) = Len(InEnv)
        /\ \A k \in 1..Len(InEnv) : \E i \in 1..Len(InEnv) : pOut.app.ValuesFiles[i] = PathAt(k)
        /\ \A a, b \in 1..Len(InEnv) :
              (a < b /\ InEnv[a].Name = InEnv[b].Name) => PlaceOf(a) < PlaceOf(b)

\* the positions at which a worker reads or writes clonedRepos or cloneCounter
AccessPositions == {"lookup", "count", "insert"}

\* the workers that were given a clone directory and have not left the clone branch
HoldsClonePath(w) == pc[w] \in {"clone", "lockInsert", "insert"}

\* C24: a worker reads or writes the clone map and the clone counter only
\* while it holds the mutex, so at most one worker is at such an access; the
\* map and the counter change only in a step of the holder; the counter never
\* decreases; and no two clone attempts, running or ended, for one key or for
\* two, have the same clone-<N> directory.
C24_SerializedDistinctPaths ==
    /\ [](/\ \A w \in Workers : pc[w] \in AccessPositions => mu = w
          /\ \A e1, e2 \in cloneLog : e1.path = e2.path => e1 = e2
          /\ \A w1, w2 \in Workers :
                (w1 # w2 /\ HoldsClonePath(w1) /\ HoldsClonePath(w2)) => wPath[w1] # wPath[w2]
          /\ \A w \in Workers :
                pc[w] = "clone" => \A e \in cloneLog : e.path # wPath[w])
    /\ [][/\ cloneCounter' >= cloneCounter
          /\ (clonedRepos' # clonedRepos \/ cloneCounter' # cloneCounter) =>
                (mu \in Workers /\ pc[mu] \in AccessPositions /\ pc'[mu] # pc[mu])]_vars

\* two clone attempts of one key were given the directories clone-1 and
\* clone-2 while a worker holds the mutex to insert its path
C24_Witness ==
    /\ \E e1, e2 \in cloneLog : e1.key = e2.key /\ e1.path = 1 /\ e2.path = 2
    /\ \E w \in Workers : pc[w] = "insert" /\ mu = w
    /\ cloneCounter = 2

\* C25: processing leaves the descriptor as the resolver produced it: its
\* setters and every other field are unchanged, the injection of
\* global.instance and global.env being made on a map of the worker.
C25_DescriptorUnchanged ==
    /\ [](applications # << >> => applications = ParseApplications(manifests).apps)
    /\ [][\A w \in Workers : pc'[w] # pc[w] => applications' = applications]_vars

\* a worker of instance i and env d has returned nil: its file was rendered
\* with global.instance=i and global.env=d, and its descriptor has the setters
\* of the resolver, without the two keys
C25_Witness ==
    \E w \in Started :
        /\ Succeeded(w)
        /\ applications[w].Instance = << "i" >> /\ applications[w].Env = << "d" >>
        /\ applications[w].Setters = NilMap
        /\ \E n \in 1..Len(files[OutputFile(applications[w])]) :
               files[OutputFile(applications[w])][n].bytes.SetValues =
                   [k \in {"global.instance", "global.env"} |->
                                 IF k = "global.instance" THEN << "i" >> ELSE << "d" >>]

\* the clone attempts made for a key, and the keys whose attempts all failed
AttemptsFor(k) == {e \in cloneLog : e.key = k}
OnlyFailed(k) == AttemptsFor(k) # {} /\ \A e \in AttemptsFor(k) : ~e.ok

\* C26: a failed clone leaves the clone map unchanged: every path stored in
\* the map is the directory of a clone call of that key that returned success,
\* a key whose clone attempts all failed has no entry, the step in which a
\* clone fails changes neither the map nor the counter, and a worker that
\* looks up a key whose attempts all failed goes on to a clone attempt, which
\* is given a clone-<N> directory that no earlier attempt was given.
C26_FailedCloneNotCached ==
    /\ [](/\ \A k \in DOMAIN clonedRepos :
                \E e \in AttemptsFor(k) : e.ok /\ e.path = clonedRepos[k]
          /\ \A w \in Workers : OnlyFailed(wKey[w]) => wKey[w] \notin DOMAIN clonedRepos)
    /\ [][\A w \in Workers :
            /\ (pc[w] = "clone" /\ pc'[w] = "send")
                  => /\ clonedRepos' = clonedRepos /\ cloneCounter' = cloneCounter
                     /\ \E e \in cloneLog' \ cloneLog :
                           e.key = wKey[w] /\ e.path = wPath[w] /\ ~e.ok
            /\ (pc[w] = "lookup" /\ pc'[w] # "lookup" /\ OnlyFailed(wKey[w]))
                  => pc'[w] = "lockCount" /\ ~wCached'[w]
            /\ (pc[w] = "count" /\ pc'[w] # "count")
                  => /\ pc'[w] = "clone"
                     /\ wPath'[w] = cloneCounter'
                     /\ \A e \in cloneLog : e.path # wPath'[w]]_vars

\* a worker is at the lookup of a key whose one clone attempt has failed
C26_Witness ==
    \E w \in Workers :
        /\ pc[w] = "lookup" /\ mu = w
        /\ OnlyFailed(wKey[w])
        /\ wKey[w] \notin DOMAIN clonedRepos

====
